---- MODULE Spec2Model ----
(***************************************************************************)
(* Sleep analysis of the dashboard's GarminService                         *)
(* (src/app/services/garmin_service.py) and the safe_get helper            *)
(* (src/app/utils/helpers.py).                                             *)
(*                                                                         *)
(* Python floats are modelled as exact rationals [n, d] in lowest terms.   *)
(* A square root is never evaluated: a consistency value c in [0, 100] is  *)
(* carried as the rational (100 - c)^2, which orders and rounds exactly.   *)
(* Dates are day ordinals; "%Y-%m-%d" strings of four-digit years order    *)
(* lexicographically exactly as their ordinals do.                         *)
(***************************************************************************)
EXTENDS Integers, Sequences, FiniteSets, TLC

VARIABLES
    email,            \* self.email is truthy
    password,         \* self.password is truthy
    libInstalled,     \* `from garminconnect import Garmin` succeeds
    pc,               \* position of the running call
    days,             \* the days argument of get_sleep_analysis
    i,                \* loop index of `for i in range(days)`
    sleep_data_list,  \* the series under collection
    metricsInput,     \* argument of a direct _calculate_sleep_metrics call
    fetched,          \* dates passed to client.get_sleep_data, in call order
    okDates,          \* dates whose fetch and extraction both succeeded
    failedDates,      \* dates whose fetch or extraction raised, or had no record
    logins,           \* client.login() calls of the running call
    loggedIn,         \* client.login() of the running call returned
    lastOutcome,      \* what the latest loop iteration did
    clients,          \* Garmin(...) constructions of the running call
    result,           \* the value returned to the caller (NoResult before)
    metricsLocals,    \* unrounded locals of the _calculate_sleep_metrics run
    escaped,          \* an exception left the running call
    fnArgs,           \* arguments of a direct call of a helper function
    fnResult,         \* what that call returned or raised
    observed          \* history: what the provider did in the running call

vars == <<email, password, libInstalled, pc, days, i, sleep_data_list,
          metricsInput, fetched, okDates, failedDates, logins, loggedIn,
          lastOutcome, clients, result, metricsLocals, escaped, fnArgs, fnResult,
          observed>>

fnVars == <<fnArgs, fnResult>>

(***************************************************************************)
(* Bounds of the model.                                                    *)
(***************************************************************************)
MaxDays == 6      \* largest days argument
MaxShort == 2     \* longest series of arbitrary dates handed to _calculate_sleep_metrics
MaxLong == 7      \* longest series of consecutive dates handed to _calculate_sleep_metrics
MaxSegments == 2  \* longest sleepLevels list handed to _calculate_sleep_stages
MaxRecorded == 3  \* largest days argument of a call whose fetches are recorded
MaxKeys == 3      \* longest key path handed to safe_get
MaxPermuted == 4  \* longest series handed over again in every permutation
MaxCompared == 7  \* longest series handed over again in a changed form

(***************************************************************************)
(* Exact rationals standing for Python floats.                             *)
(***************************************************************************)
Abs(x) == IF x < 0 THEN -x ELSE x

RECURSIVE GCD(_, _)
GCD(a, b) == IF b = 0 THEN a ELSE GCD(b, a % b)

Rat(n, d) ==
    LET g == GCD(Abs(n), Abs(d))
        s == IF d < 0 THEN -1 ELSE 1
    IN  [n |-> (s * n) \div g, d |-> (s * d) \div g]

RInt(k) == [n |-> k, d |-> 1]
RAdd(a, b) ==
    LET g == GCD(a.d, b.d)
    IN  Rat(a.n * (b.d \div g) + b.n * (a.d \div g), (a.d \div g) * b.d)
RSub(a, b) == RAdd(a, [n |-> -b.n, d |-> b.d])
RMul(a, b) == Rat(a.n * b.n, a.d * b.d)
RDiv(a, b) == Rat(a.n * b.d, a.d * b.n)
RLt(a, b) == a.n * b.d < b.n * a.d
RLe(a, b) == a.n * b.d <= b.n * a.d
RMax(a, b) == IF RLt(a, b) THEN b ELSE a
RMin(a, b) == IF RLt(b, a) THEN b ELSE a
RFloor(a) == a.n \div a.d

RECURSIVE RSum(_)
RSum(s) == IF s = <<>> THEN RInt(0) ELSE RAdd(Head(s), RSum(Tail(s)))

(***************************************************************************)
(* round(x, 0) and round(x, 1): round half to even.                        *)
(***************************************************************************)
RoundHalfEven(a) ==
    LET f == RFloor(a)
        twice == RSub(RMul(RInt(2), a), RInt(2 * f))   \* 2 * (a - f), in [0, 2)
    IN  IF RLt(twice, RInt(1)) THEN f
        ELSE IF RLt(RInt(1), twice) THEN f + 1
        ELSE IF f % 2 = 0 THEN f ELSE f + 1

Round0(a) == RInt(RoundHalfEven(a))
Round1(a) == Rat(RoundHalfEven(RMul(a, RInt(10))), 10)

\* str() of a float with one decimal, as the f-string of the debt message prints it
FormatFloat1(a) ==
    LET t == a.n * (10 \div a.d)      \* a is a multiple of 1/10
        w == Abs(t) \div 10
        f == Abs(t) % 10
    IN  (IF t < 0 THEN "-" ELSE "") \o ToString(w) \o "." \o ToString(f)

(***************************************************************************)
(* JSON-like values of the provider payload.                               *)
(* A string is the sequence of its characters.                             *)
(***************************************************************************)
None == [t |-> "none"]
Num(k) == [t |-> "num", v |-> k]
Str(s) == [t |-> "str", v |-> s]
List(s) == [t |-> "list", v |-> s]
Dict(f) == [t |-> "dict", v |-> f]

IsNone(x) == x.t = "none"
IsDict(x) == x.t = "dict"
IsNum(x) == x.t = "num"
IsStr(x) == x.t = "str"

\* dict.get(key): None when the key is missing
DictGet(x, key) == IF key \in DOMAIN x.v THEN x.v[key] ELSE None

\* Python truthiness of a payload value
Truthy(x) ==
    CASE x.t = "none" -> FALSE
      [] x.t = "num"  -> x.v # 0
      [] x.t = "str"  -> x.v # <<>>
      [] x.t = "list" -> x.v # <<>>
      [] x.t = "dict" -> DOMAIN x.v # {}

\* line 117 written `current or default`: a falsy value found is replaced
RECURSIVE safe_get_FalsyIsDefault(_, _, _)
safe_get_FalsyIsDefault(dictionary, keys, default) ==
    IF keys = <<>>
    THEN IF Truthy(dictionary) THEN dictionary ELSE default
    ELSE IF IsDict(dictionary)
         THEN LET current == DictGet(dictionary, Head(keys))
              IN  IF IsNone(current) THEN default
                  ELSE safe_get_FalsyIsDefault(current, Tail(keys), default)
         ELSE default

RECURSIVE safe_get(_, _, _)
safe_get(dictionary, keys, default) ==
    IF keys = <<>>
    THEN IF ~IsNone(dictionary) THEN dictionary ELSE default
    ELSE IF IsDict(dictionary)
         THEN LET current == DictGet(dictionary, Head(keys))
              IN  IF IsNone(current) THEN default
                  ELSE safe_get(current, Tail(keys), default)
         ELSE default

(***************************************************************************)
(* Outcome of a call that may raise.  Exceptions are named by their class; *)
(* every class below derives from Exception.                               *)
(***************************************************************************)
Raise(cls) == [raised |-> TRUE, exc |-> cls]
Return(v) == [raised |-> FALSE, value |-> v]

(***************************************************************************)
(* str.lower() and the `in` substring test on character sequences.         *)
(***************************************************************************)
UpperChars == <<"A", "B", "C", "D", "E", "F", "G", "H", "I", "J", "K", "L", "M",
                "N", "O", "P", "Q", "R", "S", "T", "U", "V", "W", "X", "Y", "Z">>
LowerChars == <<"a", "b", "c", "d", "e", "f", "g", "h", "i", "j", "k", "l", "m",
                "n", "o", "p", "q", "r", "s", "t", "u", "v", "w", "x", "y", "z">>

LowerChar(c) ==
    IF \E k \in 1..Len(UpperChars) : UpperChars[k] = c
    THEN LowerChars[CHOOSE k \in 1..Len(UpperChars) : UpperChars[k] = c]
    ELSE c

Lower(s) == [k \in 1..Len(s) |-> LowerChar(s[k])]

Contains(sub, s) ==
    \E k \in 0..(Len(s) - Len(sub)) : SubSeq(s, k + 1, k + Len(sub)) = sub

DEEP == <<"d", "e", "e", "p">>
LIGHT == <<"l", "i", "g", "h", "t">>
REM == <<"r", "e", "m">>
AWAKE == <<"a", "w", "a", "k", "e">>

(***************************************************************************)
(* GarminService._calculate_sleep_stages                                   *)
(***************************************************************************)
ZeroStages == [deep |-> RInt(0), light |-> RInt(0), rem |-> RInt(0), awake |-> RInt(0)]

\* lines 259-266 testing 'light' before 'deep'
StageBucket_LightFirst(stage_type) ==
    IF Contains(LIGHT, stage_type) THEN "light"
    ELSE IF Contains(DEEP, stage_type) THEN "deep"
    ELSE IF Contains(REM, stage_type) THEN "rem"
    ELSE IF Contains(AWAKE, stage_type) THEN "awake"
    ELSE ""

\* the bucket a lowercased label falls in ("" for none)
StageBucket(stage_type) ==
    IF Contains(DEEP, stage_type) THEN "deep"
    ELSE IF Contains(LIGHT, stage_type) THEN "light"
    ELSE IF Contains(REM, stage_type) THEN "rem"
    ELSE IF Contains(AWAKE, stage_type) THEN "awake"
    ELSE ""

\* lines 255-257 taking '' for a label that is no string and 0 for seconds
\* that are no number
StageStep_DefaultsWrongTypes(stages, level) ==
    LET found == safe_get(level, <<"activityLevel">>, Str(<<>>))
        label == IF IsStr(found) THEN found ELSE Str(<<>>)
        seconds == safe_get(level, <<"seconds">>, Num(0))
        duration_minutes == Rat(IF IsNum(seconds) THEN seconds.v ELSE 0, 60)
        b == StageBucket(Lower(label.v))
    IN  Return(IF b = "" THEN stages
               ELSE [stages EXCEPT ![b] = RAdd(@, duration_minutes)])

\* one iteration of `for level in sleep_levels`
StageStep(stages, level) ==
    LET label == safe_get(level, <<"activityLevel">>, Str(<<>>))
        duration_seconds == safe_get(level, <<"seconds">>, Num(0))
    IN  IF ~IsStr(label) THEN Raise("AttributeError")        \* no .lower()
        ELSE IF ~IsNum(duration_seconds) THEN Raise("TypeError")   \* x / 60
        ELSE LET duration_minutes == Rat(duration_seconds.v, 60)
                 b == StageBucket(Lower(label.v))
             IN  Return(IF b = "" THEN stages
                        ELSE [stages EXCEPT ![b] = RAdd(@, duration_minutes)])

RECURSIVE StageLoop(_, _)
StageLoop(stages, levels) ==
    IF levels = <<>> THEN Return(stages)
    ELSE LET r == StageStep(stages, Head(levels))
         IN  IF r.raised THEN r ELSE StageLoop(r.value, Tail(levels))

\* what `for level in sleep_levels` iterates over
IterItems(x) ==
    CASE x.t = "list" -> x.v
      [] x.t = "dict" -> <<>>     \* keys are strings: every lookup defaults, no bucket
      [] x.t = "str"  -> <<>>     \* characters: likewise
      [] OTHER        -> <<>>

calculate_sleep_stages(sleep_levels) ==
    IF ~Truthy(sleep_levels) THEN Return(ZeroStages)
    ELSE IF IsNum(sleep_levels) THEN Raise("TypeError")      \* not iterable
    ELSE StageLoop(ZeroStages, IterItems(sleep_levels))

(***************************************************************************)
(* Body of the per-day try block of get_sleep_analysis (lines 194-220),    *)
(* given what client.get_sleep_data(date) did.                             *)
(***************************************************************************)
Today == 20

\* line 192 with today + timedelta(days=i): the window runs forward
DateOf_Forward(k) == Today + k

DateOf(k) == Today - k

NoEntry == [raised |-> FALSE, entries |-> <<>>]

DTO_KEY == <<"d", "a", "i", "l", "y", "S", "l", "e", "e", "p", "D", "T", "O">>

\* `'dailySleepDTO' in sleep_data` for a truthy value that is no dict
InNonDict(sleep_data) ==
    CASE sleep_data.t = "list" -> \E k \in 1..Len(sleep_data.v) : sleep_data.v[k] = Str(DTO_KEY)
      [] sleep_data.t = "str"  -> Contains(DTO_KEY, sleep_data.v)
      [] OTHER                 -> FALSE

\* lines 195-220 appending a zero-valued entry for a date without a record
ExtractDay_ZeroFill(sleep_data, date) ==
    IF ~Truthy(sleep_data) \/ ~IsDict(sleep_data)
       \/ "dailySleepDTO" \notin DOMAIN sleep_data.v
    THEN [raised |-> FALSE,
          entries |-> << [date |-> date, hours |-> RInt(0), score |-> Num(0),
                          deep_minutes |-> RInt(0), light_minutes |-> RInt(0),
                          rem_minutes |-> RInt(0), awake_minutes |-> RInt(0)] >>]
    ELSE LET daily_sleep == sleep_data.v["dailySleepDTO"]
             stages == calculate_sleep_stages(
                           safe_get(daily_sleep, <<"sleepLevels">>, List(<<>>)))
             sleep_seconds == safe_get(daily_sleep, <<"sleepTimeSeconds">>, Num(0))
         IN  IF stages.raised THEN stages
             ELSE IF ~IsNum(sleep_seconds) THEN Raise("TypeError")
             ELSE [raised |-> FALSE,
                   entries |-> << [date |-> date,
                                   hours |-> Rat(sleep_seconds.v, 3600),
                                   score |-> safe_get(daily_sleep,
                                       <<"sleepScores", "overall", "value">>, Num(0)),
                                   deep_minutes |-> stages.value.deep,
                                   light_minutes |-> stages.value.light,
                                   rem_minutes |-> stages.value.rem,
                                   awake_minutes |-> stages.value.awake] >>]

\* The entries the day appends (none or one), or the exception the block raises.
ExtractDay(sleep_data, date) ==
    IF ~Truthy(sleep_data) THEN NoEntry
    ELSE IF IsNum(sleep_data) THEN Raise("TypeError")       \* `in` on a number
    ELSE IF ~IsDict(sleep_data)
         THEN IF InNonDict(sleep_data) THEN Raise("TypeError")   \* str index
              ELSE NoEntry
    ELSE IF "dailySleepDTO" \notin DOMAIN sleep_data.v THEN NoEntry
    ELSE LET daily_sleep == sleep_data.v["dailySleepDTO"]
             sleep_levels == safe_get(daily_sleep, <<"sleepLevels">>, List(<<>>))
             stages == calculate_sleep_stages(sleep_levels)
             sleep_seconds == safe_get(daily_sleep, <<"sleepTimeSeconds">>, Num(0))
             sleep_score == safe_get(daily_sleep,
                                     <<"sleepScores", "overall", "value">>, Num(0))
         IN  IF stages.raised THEN stages
             ELSE IF ~IsNum(sleep_seconds) THEN Raise("TypeError")   \* x / 3600
             ELSE [raised |-> FALSE,
                   entries |-> << [date |-> date,
                                   hours |-> Rat(sleep_seconds.v, 3600),
                                   score |-> sleep_score,
                                   deep_minutes |-> stages.value.deep,
                                   light_minutes |-> stages.value.light,
                                   rem_minutes |-> stages.value.rem,
                                   awake_minutes |-> stages.value.awake] >>]

(***************************************************************************)
(* GarminService._get_fallback_sleep_analysis                              *)
(***************************************************************************)
\* the fallback with the placeholder fields of a computed analysis
get_fallback_sleep_analysis_Computed(reason) ==
    [weekly_data |-> <<>>,
     averages |-> [hours |-> RInt(0), score |-> RInt(0),
                   deep_minutes |-> RInt(0), light_minutes |-> RInt(0),
                   rem_minutes |-> RInt(0), awake_minutes |-> RInt(0)],
     consistency_score |-> RInt(100),
     sleep_debt |-> [total_hours |-> RInt(0), avg_daily |-> RInt(0)],
     trend |-> "insufficient_data",
     optimal_bedtime |-> "N/A",
     recommendations |-> << "Sleep analysis unavailable: " \o reason >>]

get_fallback_sleep_analysis(reason) ==
    [weekly_data |-> <<>>,
     averages |-> [hours |-> RInt(0), score |-> RInt(0),
                   deep_minutes |-> RInt(0), light_minutes |-> RInt(0),
                   rem_minutes |-> RInt(0), awake_minutes |-> RInt(0)],
     consistency_score |-> RInt(0),
     sleep_debt |-> [total_hours |-> RInt(0), avg_daily |-> RInt(0)],
     trend |-> "unavailable",
     optimal_bedtime |-> "N/A",
     recommendations |-> << "Sleep analysis unavailable: " \o reason >>]

(***************************************************************************)
(* GarminService._generate_sleep_recommendations                           *)
(* consistency arrives as the rational (100 - consistency)^2.              *)
(***************************************************************************)
MsgShort == "You're averaging less than 7 hours. Aim for 7-9 hours for optimal recovery."
MsgLong == "Sleeping over 9 hours might indicate poor sleep quality. Check for disruptions."
MsgDurationOk == "Great sleep duration! You're in the optimal 7-9 hour range."
MsgLowQuality == "Low sleep quality detected. Consider reducing caffeine and screen time before bed."
MsgQualityOk == "Excellent sleep quality! Keep up your sleep routine."
MsgInconsistent == "Inconsistent sleep schedule. Try going to bed at the same time each night."
MsgConsistent == "Good sleep consistency! Regular schedule helps optimize recovery."
MsgLowDeep == "Low deep sleep. Avoid alcohol and exercise 3+ hours before bedtime."
MsgDeepOk == "Excellent deep sleep! Your body is recovering optimally."
MsgLowRem == "Low REM sleep. Manage stress and maintain consistent sleep times."
MsgRemOk == "Great REM sleep! Your mind is processing and learning well."
MsgDebt(debt) ==
    "You have " \o FormatFloat1(Round1(debt))
        \o " hours of daily sleep debt. Consider a weekend catch-up sleep session."

\* consistency < t, for a threshold 0 <= t <= 100
ConsistencyBelow(gap2, t) == RLt(RInt((100 - t) * (100 - t)), gap2)

DurationTier(avg_hours) ==
    IF RLt(avg_hours, RInt(7)) THEN <<MsgShort>>
    ELSE IF RLt(RInt(9), avg_hours) THEN <<MsgLong>>
    ELSE <<MsgDurationOk>>

\* line 362 written `0 < avg_score < 70`: no message without a measurement
ScoreTier_SilentWithoutScore(avg_score) ==
    IF RLt(RInt(0), avg_score) /\ RLt(avg_score, RInt(70)) THEN <<MsgLowQuality>>
    ELSE IF RLe(RInt(80), avg_score) THEN <<MsgQualityOk>>
    ELSE <<>>

ScoreTier(avg_score) ==
    IF RLt(avg_score, RInt(70)) THEN <<MsgLowQuality>>
    ELSE IF RLe(RInt(80), avg_score) THEN <<MsgQualityOk>>
    ELSE <<>>

\* lines 368-371 without the else branch
ConsistencyTier_NoPositive(consistency) ==
    IF ConsistencyBelow(consistency, 70) THEN <<MsgInconsistent>>
    ELSE <<>>

ConsistencyTier(consistency) ==
    IF ConsistencyBelow(consistency, 70) THEN <<MsgInconsistent>>
    ELSE <<MsgConsistent>>

DeepTier(deep_minutes) ==
    IF RLt(deep_minutes, RInt(60)) THEN <<MsgLowDeep>>
    ELSE IF RLt(RInt(120), deep_minutes) THEN <<MsgDeepOk>>
    ELSE <<>>

RemTier(rem_minutes) ==
    IF RLt(rem_minutes, RInt(60)) THEN <<MsgLowRem>>
    ELSE IF RLt(RInt(120), rem_minutes) THEN <<MsgRemOk>>
    ELSE <<>>

\* line 386 with >= in place of >
\* line 386 with the threshold at 2 hours
DebtTier_AboveTwo(debt) ==
    IF RLt(RInt(2), debt) THEN <<MsgDebt(debt)>> ELSE <<>>

DebtTier_Inclusive(debt) ==
    IF RLe(RInt(1), debt) THEN <<MsgDebt(debt)>> ELSE <<>>

DebtTier(debt) ==
    IF RLt(RInt(1), debt) THEN <<MsgDebt(debt)>> ELSE <<>>

generate_sleep_recommendations(avg_hours, avg_score, consistency, deep_minutes, rem_minutes, debt) ==
    DurationTier(avg_hours) \o ScoreTier(avg_score) \o ConsistencyTier(consistency)
        \o DeepTier(deep_minutes) \o RemTier(rem_minutes) \o DebtTier(debt)

(***************************************************************************)
(* GarminService._calculate_sleep_metrics                                  *)
(***************************************************************************)
Field(sleep_data, f) == [k \in 1..Len(sleep_data) |-> sleep_data[k][f]]

\* list.sort(key=date, reverse=True): stable, equal dates keep their order
RECURSIVE InsertByDateDesc(_, _)
InsertByDateDesc(sorted, e) ==
    IF sorted = <<>> THEN <<e>>
    ELSE IF Head(sorted).date >= e.date
         THEN <<Head(sorted)>> \o InsertByDateDesc(Tail(sorted), e)
         ELSE <<e>> \o sorted

RECURSIVE SortFrom(_, _)
SortFrom(sorted, rest) ==
    IF rest = <<>> THEN sorted
    ELSE SortFrom(InsertByDateDesc(sorted, Head(rest)), Tail(rest))

\* line 276 missing: the series is used in the order it arrived
SortByDateDesc_NoSort(sleep_data) == sleep_data

SortByDateDesc(sleep_data) == SortFrom(<<>>, sleep_data)

\* lines 279-284 averaging over the entries with a positive value only
Mean_OverPositive(values) ==
    LET count == Cardinality({k \in 1..Len(values) : values[k].n > 0})
    IN  RDiv(RSum(values), RInt(IF count > 1 THEN count ELSE 1))

Mean(values) == RDiv(RSum(values), RInt(Len(values)))

\* line 280: positive scores only, denominator max(count, 1)
PositiveScores(sleep_data) ==
    SelectSeq(Field(sleep_data, "score"), LAMBDA sc : sc.v > 0)

\* line 280 dividing by len(sleep_data)
AvgScore_OverAllEntries(sleep_data) ==
    LET pos == PositiveScores(sleep_data)
    IN  RDiv(RSum([k \in 1..Len(pos) |-> RInt(pos[k].v)]), RInt(Len(sleep_data)))

AvgScore(sleep_data) ==
    LET pos == PositiveScores(sleep_data)
        count == IF Len(pos) > 1 THEN Len(pos) ELSE 1
    IN  RDiv(RSum([k \in 1..Len(pos) |-> RInt(pos[k].v)]), RInt(count))

\* line 290 dividing by n - 1 (sample variance)
Variance_Sample(sleep_data, mean_hours) ==
    LET dev2 == [k \in 1..Len(sleep_data) |->
                    RMul(RSub(sleep_data[k].hours, mean_hours),
                         RSub(sleep_data[k].hours, mean_hours))]
    IN  RDiv(RSum(dev2), RInt(Len(sleep_data) - 1))

\* line 290
Variance(sleep_data, mean_hours) ==
    LET dev2 == [k \in 1..Len(sleep_data) |->
                    RMul(RSub(sleep_data[k].hours, mean_hours),
                         RSub(sleep_data[k].hours, mean_hours))]
    IN  RDiv(RSum(dev2), RInt(Len(sleep_data)))

\* lines 288-296 with a single entry scored 0 instead of 100
ConsistencyScore_SingleIsZero(sleep_data, avg_hours) ==
    IF Len(sleep_data) > 1
    THEN RMin(RMul(RInt(900), Variance(sleep_data, avg_hours)), RInt(10000))
    ELSE RInt(10000)

\* lines 288-296; the value is (100 - consistency_score)^2:
\* std_dev * 30 has square 900 * variance, and max(0, min(100, 100 - x)) for
\* x >= 0 lies min(x, 100) below 100.
ConsistencyScore(sleep_data, avg_hours) ==
    IF Len(sleep_data) > 1
    THEN RMin(RMul(RInt(900), Variance(sleep_data, avg_hours)), RInt(10000))
    ELSE RInt(0)

\* round(consistency_score, 0), from (100 - consistency_score)^2
RoundConsistency(gap2) ==
    LET \* consistency >= k - 1/2, i.e. 4 * gap2 <= (201 - 2k)^2
        AtLeastHalf(k) == 4 * gap2.n <= (201 - 2 * k) * (201 - 2 * k) * gap2.d
        Tie(k) == 4 * gap2.n = (201 - 2 * k) * (201 - 2 * k) * gap2.d
        up == CHOOSE k \in 0..100 :
                 AtLeastHalf(k) /\ (k = 100 \/ ~AtLeastHalf(k + 1))
    IN  RInt(IF Tie(up) /\ up % 2 = 1 THEN up - 1 ELSE up)

\* lines 299-301
RecommendedHours == 8

\* line 300 without max(0, ...): a surplus offsets the debt
DayDebt_Signed(hours) == RSub(RInt(RecommendedHours), hours)

DayDebt(hours) == RMax(RInt(0), RSub(RInt(RecommendedHours), hours))

\* line 300 with the maximum taken of the sum: surplus offsets shortfall
TotalDebt_NetOfSurplus(sleep_data) ==
    RMax(RInt(0), RSum([k \in 1..Len(sleep_data) |-> RSub(RInt(RecommendedHours), sleep_data[k].hours)]))

TotalDebt(sleep_data) ==
    RSum([k \in 1..Len(sleep_data) |-> DayDebt(sleep_data[k].hours)])

\* lines 304-315 with >= and <= at the half-hour thresholds
Trend_InclusiveThresholds(sleep_data) ==
    IF Len(sleep_data) >= 6
    THEN LET recent_avg == RDiv(RSum(Field(SubSeq(sleep_data, 1, 3), "hours")), RInt(3))
             older_avg == RDiv(RSum(Field(SubSeq(sleep_data, 4, 6), "hours")), RInt(3))
         IN  IF RLe(RAdd(older_avg, Rat(1, 2)), recent_avg) THEN "improving"
             ELSE IF RLe(recent_avg, RSub(older_avg, Rat(1, 2))) THEN "declining"
             ELSE "stable"
    ELSE "insufficient_data"

\* lines 304-315 reporting "stable" when fewer than 6 entries exist
Trend_ShortIsStable(sleep_data) ==
    IF Len(sleep_data) >= 6
    THEN LET recent_avg == RDiv(RSum(Field(SubSeq(sleep_data, 1, 3), "hours")), RInt(3))
             older_avg == RDiv(RSum(Field(SubSeq(sleep_data, 4, 6), "hours")), RInt(3))
         IN  IF RLt(RAdd(older_avg, Rat(1, 2)), recent_avg) THEN "improving"
             ELSE IF RLt(recent_avg, RSub(older_avg, Rat(1, 2))) THEN "declining"
             ELSE "stable"
    ELSE "stable"

\* line 306 written sleep_data[3:]: the older group is all that follows
Trend_OlderIsTheRest(sleep_data) ==
    IF Len(sleep_data) >= 6
    THEN LET recent_avg == RDiv(RSum(Field(SubSeq(sleep_data, 1, 3), "hours")), RInt(3))
             older_avg == RDiv(RSum(Field(SubSeq(sleep_data, 4, Len(sleep_data)), "hours")),
                               RInt(Len(sleep_data) - 3))
         IN  IF RLt(RAdd(older_avg, Rat(1, 2)), recent_avg) THEN "improving"
             ELSE IF RLt(recent_avg, RSub(older_avg, Rat(1, 2))) THEN "declining"
             ELSE "stable"
    ELSE "insufficient_data"

\* lines 304-315
Trend(sleep_data) ==
    IF Len(sleep_data) >= 6
    THEN LET recent_avg == RDiv(RSum(Field(SubSeq(sleep_data, 1, 3), "hours")), RInt(3))
             older_avg == RDiv(RSum(Field(SubSeq(sleep_data, 4, 6), "hours")), RInt(3))
         IN  IF RLt(RAdd(older_avg, Rat(1, 2)), recent_avg) THEN "improving"
             ELSE IF RLt(recent_avg, RSub(older_avg, Rat(1, 2))) THEN "declining"
             ELSE "stable"
    ELSE "insufficient_data"

\* the unrounded local values of the function body
MetricsLocals(sleep_data) ==
    LET n == Len(sleep_data)
        avg_hours == Mean(Field(sleep_data, "hours"))
        total_debt == TotalDebt(sleep_data)
    IN  [avg_hours |-> avg_hours,
         avg_score |-> AvgScore(sleep_data),
         avg_deep |-> Mean(Field(sleep_data, "deep_minutes")),
         avg_light |-> Mean(Field(sleep_data, "light_minutes")),
         avg_rem |-> Mean(Field(sleep_data, "rem_minutes")),
         avg_awake |-> Mean(Field(sleep_data, "awake_minutes")),
         consistency_score |-> ConsistencyScore(sleep_data, avg_hours),
         total_debt |-> total_debt,
         avg_debt |-> RDiv(total_debt, RInt(n)),
         trend |-> Trend(sleep_data)]

NoLocals == [trend |-> "none"]

\* lines 318-320 handing the rounded values to _generate_sleep_recommendations
Assemble_RoundedTiers(sleep_data, l) ==
    [weekly_data |-> sleep_data,
     averages |-> [hours |-> Round1(l.avg_hours),
                   score |-> Round0(l.avg_score),
                   deep_minutes |-> Round0(l.avg_deep),
                   light_minutes |-> Round0(l.avg_light),
                   rem_minutes |-> Round0(l.avg_rem),
                   awake_minutes |-> Round0(l.avg_awake)],
     consistency_score |-> RoundConsistency(l.consistency_score),
     sleep_debt |-> [total_hours |-> Round1(l.total_debt),
                     avg_daily |-> Round1(l.avg_debt)],
     trend |-> l.trend,
     optimal_bedtime |-> "22:30 - 23:00",
     recommendations |->
         LET gap == RSub(RInt(100), RoundConsistency(l.consistency_score))
         IN  generate_sleep_recommendations(Round1(l.avg_hours), Round0(l.avg_score),
                                            RMul(gap, gap), Round0(l.avg_deep),
                                            Round0(l.avg_rem), Round1(l.avg_debt))]

\* line 327 returning the entries with their hours rounded to one decimal
Assemble_RoundedEntries(sleep_data, l) ==
    [weekly_data |-> [k \in 1..Len(sleep_data) |->
                         [sleep_data[k] EXCEPT !.hours = Round1(@)]],
     averages |-> [hours |-> Round1(l.avg_hours),
                   score |-> Round0(l.avg_score),
                   deep_minutes |-> Round0(l.avg_deep),
                   light_minutes |-> Round0(l.avg_light),
                   rem_minutes |-> Round0(l.avg_rem),
                   awake_minutes |-> Round0(l.avg_awake)],
     consistency_score |-> RoundConsistency(l.consistency_score),
     sleep_debt |-> [total_hours |-> Round1(l.total_debt),
                     avg_daily |-> Round1(l.avg_debt)],
     trend |-> l.trend,
     optimal_bedtime |-> "22:30 - 23:00",
     recommendations |->
         generate_sleep_recommendations(l.avg_hours, l.avg_score,
                                        l.consistency_score, l.avg_deep,
                                        l.avg_rem, l.avg_debt)]

\* the returned dictionary, lines 326-344
Assemble(sleep_data, l) ==
    [weekly_data |-> sleep_data,
     averages |-> [hours |-> Round1(l.avg_hours),
                   score |-> Round0(l.avg_score),
                   deep_minutes |-> Round0(l.avg_deep),
                   light_minutes |-> Round0(l.avg_light),
                   rem_minutes |-> Round0(l.avg_rem),
                   awake_minutes |-> Round0(l.avg_awake)],
     consistency_score |-> RoundConsistency(l.consistency_score),
     sleep_debt |-> [total_hours |-> Round1(l.total_debt),
                     avg_daily |-> Round1(l.avg_debt)],
     trend |-> l.trend,
     optimal_bedtime |-> "22:30 - 23:00",
     recommendations |->
         generate_sleep_recommendations(l.avg_hours, l.avg_score,
                                        l.consistency_score, l.avg_deep,
                                        l.avg_rem, l.avg_debt)]

\* lines 304-306 reading the series as it arrived instead of the sorted one
calculate_sleep_metrics_TrendOnInputOrder(sleep_data) ==
    IF sleep_data = <<>>
    THEN [raised |-> FALSE, locals |-> NoLocals,
          value |-> get_fallback_sleep_analysis("No data")]
    ELSE LET sorted == SortByDateDesc(sleep_data)
         IN  IF \E k \in 1..Len(sorted) : ~IsNum(sorted[k].score)
             THEN Raise("TypeError")
             ELSE LET l == [MetricsLocals(sorted) EXCEPT !.trend = Trend(sleep_data)]
                  IN  [raised |-> FALSE, locals |-> l, value |-> Assemble(sorted, l)]

\* The returned analysis with the locals that produced it, or the exception:
\* `d['score'] > 0` raises TypeError for a score that is no number.
calculate_sleep_metrics(sleep_data) ==
    IF sleep_data = <<>>
    THEN [raised |-> FALSE, locals |-> NoLocals,
          value |-> get_fallback_sleep_analysis("No data")]
    ELSE LET sorted == SortByDateDesc(sleep_data)
         IN  IF \E k \in 1..Len(sorted) : ~IsNum(sorted[k].score)
             THEN Raise("TypeError")
             ELSE LET l == MetricsLocals(sorted)
                  IN  [raised |-> FALSE, locals |-> l, value |-> Assemble(sorted, l)]

(***************************************************************************)
(* What client.get_sleep_data(date) can do: raise, or return a payload.    *)
(***************************************************************************)
Level(label, seconds) == Dict([activityLevel |-> Str(label), seconds |-> Num(seconds)])

Score(v) == Dict([overall |-> Dict([value |-> v])])

\* 6 h, score 80, one segment per stage
RecordA ==
    Dict([dailySleepDTO |-> Dict([
        sleepTimeSeconds |-> Num(21600),
        sleepScores |-> Score(Num(80)),
        sleepLevels |-> List(<<Level(<<"d", "e", "e", "p">>, 5400),
                               Level(<<"L", "I", "G", "H", "T", "_", "S", "L", "E", "E", "P">>, 10800),
                               Level(<<"r", "e", "m">>, 3600),
                               Level(<<"a", "w", "a", "k", "e">>, 1800)>>)])])

\* 7.5 h, no score, drifting labels
RecordB ==
    Dict([dailySleepDTO |-> Dict([
        sleepTimeSeconds |-> Num(27000),
        sleepLevels |-> List(<<Level(<<"D", "e", "e", "p", "_", "l", "i", "g", "h", "t">>, 7800),
                               Level(<<"u", "n", "m", "e", "a", "s", "u", "r", "a", "b", "l", "e">>, 600),
                               Level(<<"R", "E", "M">>, 9000)>>)])])

\* 9.5 h, score 60, no stage segments
RecordC ==
    Dict([dailySleepDTO |-> Dict([
        sleepTimeSeconds |-> Num(34200),
        sleepScores |-> Score(Num(60))])])

\* 8.98 h, score 75, 90 min deep and 90 min REM: every tier in its silent band
RecordD ==
    Dict([dailySleepDTO |-> Dict([
        sleepTimeSeconds |-> Num(32328),
        sleepScores |-> Score(Num(75)),
        sleepLevels |-> List(<<Level(<<"d", "e", "e", "p">>, 5400),
                               Level(<<"r", "e", "m">>, 5400)>>)])])

\* 6.96 h, otherwise as RecordD
RecordE ==
    Dict([dailySleepDTO |-> Dict([
        sleepTimeSeconds |-> Num(25056),
        sleepScores |-> Score(Num(75)),
        sleepLevels |-> List(<<Level(<<"d", "e", "e", "p">>, 5400),
                               Level(<<"r", "e", "m">>, 5400)>>)])])

\* the key is present and holds None
RecordNullDTO == Dict([dailySleepDTO |-> None])

\* the score arrives as the string "85"
RecordStrScore ==
    Dict([dailySleepDTO |-> Dict([
        sleepTimeSeconds |-> Num(28800),
        sleepScores |-> Score(Str(<<"8", "5">>))])])

\* a segment label that is a number
RecordNumLabel ==
    Dict([dailySleepDTO |-> Dict([
        sleepTimeSeconds |-> Num(28800),
        sleepLevels |-> List(<<Dict([activityLevel |-> Num(1), seconds |-> Num(600)])>>)])])

\* a payload without the dailySleepDTO key
RecordNoDTO == Dict([restingHeartRate |-> Num(52)])

FetchOutcomes ==
    << Raise("ProviderError"),
       Return(None),
       Return(RecordNoDTO),
       Return(RecordNumLabel),
       Return(RecordNullDTO),
       Return(RecordA),
       Return(RecordB),
       Return(RecordStrScore),
       Return(RecordD),
       Return(RecordE) >>

\* the outcomes tried wherever the window is long: all but the last two
FlowOutcomes == 1..8

\* What the try block of iteration j does when the fetch does FetchOutcomes[k]:
\* the fetch's exception, or ExtractDay of the payload (tabulated once).
DayBody ==
    [k \in 1..Len(FetchOutcomes), j \in 0..MaxDays |->
        IF FetchOutcomes[k].raised THEN FetchOutcomes[k]
        ELSE ExtractDay(FetchOutcomes[k].value, DateOf(j))]

(***************************************************************************)
(* Exception handlers of get_sleep_analysis.                               *)
(***************************************************************************)
ExceptionClasses == {"ImportError", "TypeError", "AttributeError", "ProviderError"}

\* line 221 catching nothing: the per-day try block missing
InnerCatches_Nothing(exc) == FALSE

\* line 221: `except Exception` around one day
InnerCatches(exc) == exc \in ExceptionClasses

\* lines 234-240 without the final `except Exception`
OuterExcept_ImportErrorOnly(exc) ==
    IF exc = "ImportError" THEN [caught |-> TRUE, reason |-> "Library not installed"]
    ELSE [caught |-> FALSE, reason |-> ""]

\* lines 234-240 without the `except ImportError` clause
OuterExcept_NoImportErrorClause(exc) ==
    IF exc \in ExceptionClasses
    THEN [caught |-> TRUE, reason |-> "Connection failed"]
    ELSE [caught |-> FALSE, reason |-> ""]

\* lines 234-240: the reason of the fallback returned, or no handler
OuterExcept(exc) ==
    IF exc = "ImportError" THEN [caught |-> TRUE, reason |-> "Library not installed"]
    ELSE IF exc \in ExceptionClasses
         THEN [caught |-> TRUE, reason |-> "Connection failed"]
         ELSE [caught |-> FALSE, reason |-> ""]

NoResult == [trend |-> "no_result"]

\* no helper function is being called directly
NoCall == [fn |-> "none"]

\* the call ends by returning v
Returns(v) ==
    /\ result' = v
    /\ pc' = "done"
    /\ escaped' = FALSE

\* exc is raised inside the outer try block
RaisedInTry(exc) ==
    LET h == OuterExcept(exc)
    IN  IF h.caught
        THEN Returns(get_fallback_sleep_analysis(h.reason))
        ELSE /\ result' = NoResult
             /\ pc' = "done"
             /\ escaped' = TRUE

(***************************************************************************)
(* State machine.                                                          *)
(***************************************************************************)
\* the provider's doings are recorded (in call order, as indices into
\* FetchOutcomes) only where a property speaks of them
Recording(on) == [recording |-> on, outcomes |-> <<>>]

\* the service object after construction, no call running
InitState ==
    /\ email \in BOOLEAN
    /\ password \in BOOLEAN
    /\ libInstalled \in BOOLEAN
    /\ pc = "idle"
    /\ days = 0
    /\ i = 0
    /\ sleep_data_list = <<>>
    /\ metricsInput = <<>>
    /\ fetched = <<>>
    /\ okDates = {}
    /\ failedDates = {}
    /\ logins = 0
    /\ loggedIn = FALSE
    /\ lastOutcome = "none"
    /\ clients = 0
    /\ result = NoResult
    /\ metricsLocals = NoLocals
    /\ escaped = FALSE
    /\ fnArgs = NoCall
    /\ fnResult = NoCall

Init == InitState /\ observed = Recording(FALSE)

\* get_sleep_analysis(d) with the import of line 182 ahead of the
\* credentials check of lines 177-179
Call_ImportFirst(d) ==
    /\ pc = "idle"
    /\ days' = d
    /\ IF ~libInstalled
       THEN Returns(get_fallback_sleep_analysis("Library not installed"))
       ELSE IF ~email \/ ~password
            THEN Returns(get_fallback_sleep_analysis("Not configured"))
            ELSE /\ pc' = "import"
                 /\ UNCHANGED <<result, escaped>>
    /\ UNCHANGED <<email, password, libInstalled, i, sleep_data_list, metricsInput,
                   fetched, okDates, failedDates, logins, loggedIn, lastOutcome,
                   clients, metricsLocals>>
    /\ UNCHANGED <<fnVars, observed>>

\* get_sleep_analysis(d) without the credentials check of lines 177-179
Call_NoCredentialCheck(d) ==
    /\ pc = "idle"
    /\ days' = d
    /\ pc' = "import"
    /\ UNCHANGED <<result, escaped>>
    /\ UNCHANGED <<email, password, libInstalled, i, sleep_data_list, metricsInput,
                   fetched, okDates, failedDates, logins, loggedIn, lastOutcome,
                   clients, metricsLocals>>
    /\ UNCHANGED <<fnVars, observed>>

\* get_sleep_analysis(d) is called: lines 177-179
Call(d) ==
    /\ pc = "idle"
    /\ days' = d
    /\ IF ~email \/ ~password
       THEN Returns(get_fallback_sleep_analysis("Not configured"))
       ELSE /\ pc' = "import"
            /\ UNCHANGED <<result, escaped>>
    /\ UNCHANGED <<email, password, libInstalled, i, sleep_data_list, metricsInput,
                   fetched, okDates, failedDates, logins, loggedIn, lastOutcome,
                   clients, metricsLocals>>
    /\ UNCHANGED <<fnVars, observed>>

\* lines 182-184: the import and the client construction
ImportLib ==
    /\ pc = "import"
    /\ IF libInstalled
       THEN /\ clients' = clients + 1
            /\ pc' = "login"
            /\ UNCHANGED <<result, escaped>>
       ELSE /\ RaisedInTry("ImportError")
            /\ UNCHANGED clients
    /\ UNCHANGED <<email, password, libInstalled, days, i, sleep_data_list,
                   metricsInput, fetched, okDates, failedDates, logins, loggedIn,
                   lastOutcome, metricsLocals>>
    /\ UNCHANGED <<fnVars, observed>>

\* lines 185-188: client.login() returns or raises
Login(ok) ==
    /\ pc = "login"
    /\ logins' = logins + 1
    /\ IF ok
       THEN /\ pc' = "loop"
            /\ loggedIn' = TRUE
            /\ UNCHANGED <<result, escaped>>
       ELSE /\ RaisedInTry("ProviderError")
            /\ UNCHANGED loggedIn
    /\ UNCHANGED <<email, password, libInstalled, days, i, sleep_data_list,
                   metricsInput, fetched, okDates, failedDates, lastOutcome,
                   clients, metricsLocals>>
    /\ UNCHANGED <<fnVars, observed>>

\* the fetch returned a record for the date: a payload holding dailySleepDTO
HasRecord(fetch) ==
    /\ ~fetch.raised
    /\ IsDict(fetch.value)
    /\ "dailySleepDTO" \in DOMAIN fetch.value.v

\* lines 191-223: one iteration of the loop, the fetch doing FetchOutcomes[k].
\* okDates, failedDates and lastOutcome record what the fetch and the
\* extraction did, not what the iteration appended.
FetchDay(k) ==
    /\ pc = "loop"
    /\ i < days
    /\ LET date == DateOf(i)
           fetch == FetchOutcomes[k]
           body == DayBody[k, i]
       IN  /\ fetched' = Append(fetched, date)
           /\ lastOutcome' = IF fetch.raised THEN "fetch_raised"
                             ELSE IF body.raised THEN "extraction_raised"
                             ELSE IF ~HasRecord(fetch) THEN "no_record"
                             ELSE "entry"
           /\ IF body.raised \/ ~HasRecord(fetch)
              THEN /\ failedDates' = failedDates \cup {date}
                   /\ UNCHANGED okDates
              ELSE /\ okDates' = okDates \cup {date}
                   /\ UNCHANGED failedDates
           /\ IF body.raised
              THEN IF InnerCatches(body.exc)
                   THEN /\ i' = i + 1
                        /\ UNCHANGED <<sleep_data_list, pc, result, escaped>>
                   ELSE /\ RaisedInTry(body.exc)
                        /\ UNCHANGED <<sleep_data_list, i>>
              ELSE /\ sleep_data_list' = sleep_data_list \o body.entries
                   /\ i' = i + 1
                   /\ UNCHANGED <<pc, result, escaped>>
    /\ UNCHANGED <<email, password, libInstalled, days, metricsInput, logins,
                   loggedIn, clients, metricsLocals>>
    /\ UNCHANGED fnVars
    /\ observed' = IF observed.recording
                   THEN [observed EXCEPT !.outcomes = Append(@, k)]
                   ELSE observed

\* lines 225-232: the loop is over
EndLoop ==
    /\ pc = "loop"
    /\ i >= days
    /\ IF sleep_data_list = <<>>
       THEN /\ Returns(get_fallback_sleep_analysis("No data available"))
            /\ UNCHANGED <<sleep_data_list, metricsLocals>>
       ELSE LET r == calculate_sleep_metrics(sleep_data_list)
            IN  IF r.raised
                THEN /\ RaisedInTry(r.exc)
                     /\ sleep_data_list' = SortByDateDesc(sleep_data_list)
                     /\ UNCHANGED metricsLocals
                ELSE /\ Returns(r.value)
                     /\ sleep_data_list' = r.value.weekly_data
                     /\ metricsLocals' = r.locals
    /\ UNCHANGED <<email, password, libInstalled, days, i, metricsInput, fetched,
                   okDates, failedDates, logins, loggedIn, lastOutcome, clients>>
    /\ UNCHANGED <<fnVars, observed>>

\* a Finish that leaves the series behind, as a list kept on the object would
Finish_KeepsSeries ==
    /\ pc \in {"done", "metrics_done", "fn_done"}
    /\ pc' = "idle"
    /\ days' = 0
    /\ i' = 0
    /\ UNCHANGED sleep_data_list
    /\ metricsInput' = <<>>
    /\ fetched' = <<>>
    /\ okDates' = {}
    /\ failedDates' = {}
    /\ logins' = 0
    /\ loggedIn' = FALSE
    /\ lastOutcome' = "none"
    /\ clients' = 0
    /\ result' = NoResult
    /\ metricsLocals' = NoLocals
    /\ escaped' = FALSE
    /\ fnArgs' = NoCall
    /\ fnResult' = NoCall
    /\ observed' = Recording(observed.recording)
    /\ UNCHANGED <<email, password, libInstalled>>

\* the caller has its answer; the locals of the call are gone
Finish ==
    /\ pc \in {"done", "metrics_done", "fn_done"}
    /\ pc' = "idle"
    /\ days' = 0
    /\ i' = 0
    /\ sleep_data_list' = <<>>
    /\ metricsInput' = <<>>
    /\ fetched' = <<>>
    /\ okDates' = {}
    /\ failedDates' = {}
    /\ logins' = 0
    /\ loggedIn' = FALSE
    /\ lastOutcome' = "none"
    /\ clients' = 0
    /\ result' = NoResult
    /\ metricsLocals' = NoLocals
    /\ escaped' = FALSE
    /\ fnArgs' = NoCall
    /\ fnResult' = NoCall
    /\ observed' = Recording(observed.recording)
    /\ UNCHANGED <<email, password, libInstalled>>

(***************************************************************************)
(* _calculate_sleep_metrics called on its own, on a series in any order.   *)
(***************************************************************************)
DirectRecords == <<RecordA, RecordB, RecordC, RecordNullDTO, RecordD, RecordE>>

\* the entry ExtractDay builds from DirectRecords[k] for day j (tabulated once)
DirectEntry ==
    [k \in 1..Len(DirectRecords), j \in 0..MaxLong |->
        ExtractDay(DirectRecords[k], DateOf(j)).entries[1]]

\* short series: entries of three dates in any order, repeated dates included
ShortEntries == {DirectEntry[k, j] : k \in 1..Len(DirectRecords), j \in 0..2}

ShortInputs == UNION {[1..n -> ShortEntries] : n \in 0..MaxShort}

\* the orders a long series is handed over in
Orders == {"newest_first", "oldest_first", "interleaved"}

\* how many days before today the entry at position p of n lies; interleaved
\* is today, the oldest day, yesterday, the second oldest, ...
DayAt(order, n, p) ==
    CASE order = "newest_first" -> p - 1
      [] order = "oldest_first" -> n - p
      [] order = "interleaved"  -> IF p % 2 = 1 THEN (p - 1) \div 2 ELSE n - (p \div 2)

\* long series: consecutive dates in one of the orders, RecordA..RecordC
LongSeries(n, kinds, order) ==
    [p \in 1..n |-> DirectEntry[kinds[p], DayAt(order, n, p)]]

LongInputs ==
    UNION {{LongSeries(n, kinds, o) : kinds \in [1..n -> 1..3], o \in Orders} :
           n \in (MaxShort + 1)..MaxLong}

DirectInputs == ShortInputs \cup LongInputs

CallMetrics(input) ==
    /\ pc = "idle"
    /\ metricsInput' = input
    /\ pc' = "metrics_done"
    /\ LET r == calculate_sleep_metrics(input)
       IN  IF r.raised
           THEN /\ result' = NoResult
                /\ escaped' = TRUE
                /\ UNCHANGED metricsLocals
           ELSE /\ result' = r.value
                /\ metricsLocals' = r.locals
                /\ escaped' = FALSE
    /\ UNCHANGED <<email, password, libInstalled, days, i, sleep_data_list,
                   fetched, okDates, failedDates, logins, loggedIn, lastOutcome,
                   clients>>
    /\ UNCHANGED <<fnVars, observed>>

(***************************************************************************)
(* The helper functions called on their own.                               *)
(***************************************************************************)
callVars == <<days, i, sleep_data_list, metricsInput, fetched, okDates,
              failedDates, logins, loggedIn, lastOutcome, clients, result,
              metricsLocals, escaped, observed>>

\* labels of stage segments: "deep", "LIGHT_SLEEP", "Deep_light",
\* "unmeasurable", "REM", "Awake", "awake_rem"
StageLabels ==
    << <<"d", "e", "e", "p">>,
       <<"L", "I", "G", "H", "T", "_", "S", "L", "E", "E", "P">>,
       <<"D", "e", "e", "p", "_", "l", "i", "g", "h", "t">>,
       <<"u", "n", "m", "e", "a", "s", "u", "r", "a", "b", "l", "e">>,
       <<"R", "E", "M">>,
       <<"A", "w", "a", "k", "e">>,
       <<"a", "w", "a", "k", "e", "_", "r", "e", "m">> >>

SegmentSeconds == {600, 5400}

Segments ==
    {Level(StageLabels[k], sec) : k \in 1..Len(StageLabels), sec \in SegmentSeconds}

StageInputs == UNION {[1..n -> Segments] : n \in 0..MaxSegments}

\* _calculate_sleep_stages(sleep_levels) on a list of segments
CallStages(levels) ==
    /\ pc = "idle"
    /\ pc' = "fn_done"
    /\ fnArgs' = [fn |-> "_calculate_sleep_stages", sleep_levels |-> List(levels)]
    /\ fnResult' = calculate_sleep_stages(List(levels))
    /\ UNCHANGED <<email, password, libInstalled, callVars>>

\* arguments of _generate_sleep_recommendations at and around its thresholds
RecHours == {Rat(69, 10), RInt(7), RInt(8), RInt(9), Rat(91, 10)}
RecScores == {RInt(0), Rat(139, 2), RInt(70), Rat(799, 10), RInt(80)}
RecConsistency == {Rat(348, 5), RInt(70), RInt(100)}
RecStageMinutes == {Rat(119, 2), RInt(60), RInt(120), Rat(241, 2)}
RecDebts == {RInt(0), RInt(1), Rat(26, 25), Rat(5, 4), RInt(2)}

RecommendationInputs ==
    [avg_hours : RecHours, avg_score : RecScores, consistency : RecConsistency,
     deep_minutes : RecStageMinutes, rem_minutes : RecStageMinutes, debt : RecDebts]

\* _generate_sleep_recommendations(avg_hours, avg_score, consistency, ...)
CallRecommendations(args) ==
    /\ pc = "idle"
    /\ pc' = "fn_done"
    /\ fnArgs' = [fn |-> "_generate_sleep_recommendations", args |-> args]
    /\ fnResult' =
           LET gap == RSub(RInt(100), args.consistency)
           IN  generate_sleep_recommendations(args.avg_hours, args.avg_score,
                   RMul(gap, gap), args.deep_minutes, args.rem_minutes, args.debt)
    /\ UNCHANGED <<email, password, libInstalled, callVars>>

\* the key path of the score lookup, lines 206-210
SCORE_PATH == <<"sleepScores", "overall", "value">>

\* values found at the end of a path: None, 0, 75, '', [], {}
Leaves == <<None, Num(0), Num(75), Str(<<>>), List(<<>>), Dict(<<>>)>>

Defaults == <<None, Num(0), Str(<<"d">>)>>

\* leaf wrapped in dictionaries keyed SCORE_PATH[j], ..., SCORE_PATH[depth]
RECURSIVE NestedFrom(_, _, _)
NestedFrom(j, depth, leaf) ==
    IF j > depth THEN leaf
    ELSE Dict([key \in {SCORE_PATH[j]} |-> NestedFrom(j + 1, depth, leaf)])

KeyPaths == UNION {[1..n -> {SCORE_PATH[j] : j \in 1..3}] : n \in 0..MaxKeys}

\* safe_get(dictionary, *keys, default=default)
CallSafeGet(depth, leaf, keys, default) ==
    /\ pc = "idle"
    /\ pc' = "fn_done"
    /\ fnArgs' = [fn |-> "safe_get", depth |-> depth, leaf |-> leaf,
                  dictionary |-> NestedFrom(1, depth, Leaves[leaf]),
                  keys |-> keys, default |-> Defaults[default]]
    /\ fnResult' = safe_get(NestedFrom(1, depth, Leaves[leaf]), keys, Defaults[default])
    /\ UNCHANGED <<email, password, libInstalled, callVars>>

\* a dailySleepDTO with or without sleepTimeSeconds, and with sleepScores
\* absent (depth 0) or nested to the given depth around the leaf
DailySleep(hasSeconds, depth, leaf) ==
    Dict((IF hasSeconds THEN [sleepTimeSeconds |-> Num(27000)] ELSE <<>>)
         @@ (IF depth = 0 THEN <<>> ELSE NestedFrom(1, depth, Leaves[leaf]).v))

\* lines 195-220: the body of one loop iteration on the payload of one day
CallDayBody(hasSeconds, depth, leaf) ==
    /\ pc = "idle"
    /\ pc' = "fn_done"
    /\ fnArgs' = [fn |-> "day_body", hasSeconds |-> hasSeconds, depth |-> depth,
                  leaf |-> leaf,
                  sleep_data |-> Dict([dailySleepDTO |-> DailySleep(hasSeconds, depth, leaf)])]
    /\ fnResult' = ExtractDay(Dict([dailySleepDTO |-> DailySleep(hasSeconds, depth, leaf)]),
                              Today)
    /\ UNCHANGED <<email, password, libInstalled, callVars>>

\* a 7.5 h dailySleepDTO whose sleepLevels is the given value
WithLevels(sleep_levels) ==
    Dict([dailySleepDTO |-> Dict([sleepTimeSeconds |-> Num(27000),
                                  sleepLevels |-> sleep_levels])])

\* fetched records of unexpected shape
ShapedRecords ==
    << Dict([dailySleepDTO |-> Dict(<<>>)]),
       Dict([dailySleepDTO |-> Dict([sleepTimeSeconds |-> None, sleepScores |-> None,
                                     sleepLevels |-> None])]),
       WithLevels(List(<< Dict([seconds |-> Num(600)]) >>)),
       WithLevels(List(<< Dict([activityLevel |-> None, seconds |-> Num(600)]) >>)),
       WithLevels(List(<< Dict([activityLevel |-> Str(DEEP)]) >>)),
       WithLevels(List(<< Dict([activityLevel |-> Str(DEEP), seconds |-> None]) >>)),
       WithLevels(List(<< Num(1), None, Str(DEEP) >>)),
       WithLevels(Dict([deep |-> Num(600)])),
       WithLevels(Str(DEEP)),
       WithLevels(List(<< Dict([activityLevel |-> Num(1), seconds |-> Num(600)]) >>)),
       WithLevels(List(<< Dict([activityLevel |-> Str(DEEP),
                                seconds |-> Str(<<"6", "0", "0">>)]) >>)),
       WithLevels(List(<< Dict([activityLevel |-> Str(<<"x">>),
                                seconds |-> Str(<<"6", "0", "0">>)]) >>)),
       WithLevels(Num(5)),
       WithLevels(List(<< Level(DEEP, 600),
                          Dict([activityLevel |-> Num(1), seconds |-> Num(600)]) >>)) >>

\* lines 195-220: the body of one loop iteration on ShapedRecords[k]
CallDayBodyShaped(k) ==
    /\ pc = "idle"
    /\ pc' = "fn_done"
    /\ fnArgs' = [fn |-> "shaped_day_body", sleep_data |-> ShapedRecords[k]]
    /\ fnResult' = ExtractDay(ShapedRecords[k], Today)
    /\ UNCHANGED <<email, password, libInstalled, callVars>>

(***************************************************************************)
(* _calculate_sleep_metrics called a second time, on the series of the     *)
(* first call handed over in a changed form.                               *)
(***************************************************************************)
\* days before today of the p-th newest entry: days 3 and 7 are missing
GapDay(p) == (p - 1) + ((p - 1) \div 3)

\* the entry ExtractDay builds from DirectRecords[k] for day j (tabulated once)
CompareEntry ==
    [k \in 1..3, j \in 0..(2 * MaxCompared) |->
        ExtractDay(DirectRecords[k], DateOf(j)).entries[1]]

\* newest first, distinct dates: RecordA..RecordC up to MaxPermuted entries,
\* RecordA and RecordC beyond
CompareInputs ==
    UNION {{[p \in 1..n |-> CompareEntry[kinds[p], GapDay(p)]] :
               kinds \in [1..n -> IF n <= MaxPermuted THEN 1..3 ELSE {1, 3}]} :
           n \in 1..MaxCompared}

\* the rearrangements tried: every one up to MaxPermuted entries; beyond, the
\* reversal, the interleaving, the rotations and the swaps of two neighbours
Rearrangements(n) ==
    IF n <= MaxPermuted
    THEN {q \in [1..n -> 1..n] : \A a, b \in 1..n : a # b => q[a] # q[b]}
    ELSE {[p \in 1..n |-> n + 1 - p]}
         \cup {[p \in 1..n |-> 1 + DayAt("interleaved", n, p)]}
         \cup {[p \in 1..n |-> 1 + ((p - 1 + r) % n)] : r \in 1..(n - 1)}
         \cup {[p \in 1..n |-> IF p = j THEN j + 1 ELSE IF p = j + 1 THEN j ELSE p] :
                   j \in 1..(n - 1)}

Permuted(series) ==
    {[how |-> "permuted", sleep_data |-> [p \in 1..Len(series) |-> series[q[p]]]] :
        q \in Rearrangements(Len(series))}

\* one entry with another score and other deep and REM minutes
Rescored(series) ==
    {[how |-> "rescored",
      sleep_data |-> [series EXCEPT ![j] = [@ EXCEPT !.score = Num(v[1]),
                                                     !.deep_minutes = RInt(v[2]),
                                                     !.rem_minutes = RInt(v[2])]]] :
        j \in 1..Len(series), v \in {<<0, 0>>, <<95, 45>>}}

\* an entry older than the sixth most recent one with other hours
OlderChanged(series) ==
    {[how |-> "older_changed", sleep_data |-> [series EXCEPT ![j].hours = h]] :
        j \in 7..Len(series), h \in {RInt(0), RInt(12)}}

\* an entry older than the sixth most recent one left out
OlderRemoved(series) ==
    {[how |-> "older_removed",
      sleep_data |-> SubSeq(series, 1, j - 1) \o SubSeq(series, j + 1, Len(series))] :
        j \in 7..Len(series)}

\* the entries a series is extended by, on the day after its oldest one:
\* RecordA..RecordC, a night of 7.96 h (28656 s) and a night of exactly 8 h
\* (28800 s). The night of 8 h is left out where it would be the sixth of
\* the trend window: next to nights of 6 h and 9.5 h it puts the two group
\* means exactly 0.5 h apart, which line 309 compares in binary floating
\* point and this module in exact arithmetic.
AddedEntries(series) ==
    LET day == GapDay(Len(series) + 1)
    IN  {CompareEntry[k, day] : k \in 1..3}
            \cup {[CompareEntry[3, day] EXCEPT !.hours = Rat(199, 25)]}
            \cup (IF Len(series) = 5 THEN {}
                  ELSE {[CompareEntry[3, day] EXCEPT !.hours = RInt(8)]})

\* one more entry, older than all, handed over ahead of the others
EntryAdded(series) ==
    {[how |-> "entry_added", sleep_data |-> <<e>> \o series] : e \in AddedEntries(series)}

\* the forms the series of the first call is handed over again in
VariantsOf(series) ==
    Permuted(series) \cup Rescored(series) \cup OlderChanged(series)
        \cup OlderRemoved(series) \cup EntryAdded(series)

\* a second _calculate_sleep_metrics call, on variant.sleep_data
CallMetricsAgain(variant) ==
    /\ pc = "metrics_done"
    /\ pc' = "fn_done"
    /\ fnArgs' = [fn |-> "_calculate_sleep_metrics", how |-> variant.how,
                  sleep_data |-> variant.sleep_data]
    /\ fnResult' = calculate_sleep_metrics(variant.sleep_data)
    /\ UNCHANGED <<email, password, libInstalled, callVars>>

Next ==
    \/ \E d \in 0..MaxDays : Call(d)
    \/ ImportLib
    \/ \E ok \in BOOLEAN : Login(ok)
    \/ \E k \in FlowOutcomes : FetchDay(k)
    \/ EndLoop
    \/ Finish
    \/ pc = "idle" /\ \E input \in ShortInputs : CallMetrics(input)

Spec == Init /\ [][Next]_vars

(***************************************************************************)
(* _calculate_sleep_metrics as a pure function of its argument.            *)
(***************************************************************************)
MetricsInit == Init /\ email /\ password /\ libInstalled

MetricsNext ==
    \/ pc = "idle" /\ \E input \in DirectInputs : CallMetrics(input)
    \/ Finish

MetricsSpec == MetricsInit /\ [][MetricsNext]_vars

(***************************************************************************)
(* get_sleep_analysis called again and again on one service object, each   *)
(* call's fetch outcomes recorded.                                         *)
(***************************************************************************)
RecordedInit == InitState /\ observed = Recording(TRUE)

RecordedNext ==
    \/ \E d \in 0..MaxRecorded : Call(d)
    \/ ImportLib
    \/ \E ok \in BOOLEAN : Login(ok)
    \/ \E k \in 1..Len(FetchOutcomes) : FetchDay(k)
    \/ EndLoop
    \/ Finish

RecordedSpec == RecordedInit /\ [][RecordedNext]_vars

(***************************************************************************)
(* _calculate_sleep_metrics on a series and on a changed form of it.       *)
(***************************************************************************)
CompareNext ==
    \/ pc = "idle" /\ \E input \in CompareInputs : CallMetrics(input)
    \/ pc = "metrics_done" /\ \E variant \in VariantsOf(metricsInput) :
                                  CallMetricsAgain(variant)
    \/ Finish

CompareSpec == MetricsInit /\ [][CompareNext]_vars

(***************************************************************************)
(* The helper functions as pure functions of their arguments.              *)
(***************************************************************************)
HelpersNext ==
    \/ pc = "idle" /\ \E levels \in StageInputs : CallStages(levels)
    \/ pc = "idle" /\ \E args \in RecommendationInputs : CallRecommendations(args)
    \/ pc = "idle" /\ \E depth \in 0..3, leaf \in 1..Len(Leaves), keys \in KeyPaths,
                         default \in 1..Len(Defaults) :
                         CallSafeGet(depth, leaf, keys, default)
    \/ pc = "idle" /\ \E hasSeconds \in BOOLEAN, depth \in 0..3, leaf \in 1..Len(Leaves) :
                         CallDayBody(hasSeconds, depth, leaf)
    \/ pc = "idle" /\ \E k \in 1..Len(ShapedRecords) : CallDayBodyShaped(k)
    \/ Finish

HelpersSpec == MetricsInit /\ [][HelpersNext]_vars

(***************************************************************************)
(* Properties of get_sleep_analysis, checked under Spec.                   *)
(***************************************************************************)
AnalysisFields == {"weekly_data", "averages", "consistency_score", "sleep_debt",
                   "trend", "optimal_bedtime", "recommendations"}
AverageFields == {"hours", "score", "deep_minutes", "light_minutes",
                  "rem_minutes", "awake_minutes"}
DebtFields == {"total_hours", "avg_daily"}

FullyShaped(r) ==
    /\ DOMAIN r = AnalysisFields
    /\ DOMAIN r.averages = AverageFields
    /\ DOMAIN r.sleep_debt = DebtFields

SeriesDates(series) == {series[k].date : k \in 1..Len(series)}

\* C1: a call of get_sleep_analysis that has ended let no exception escape and
\* returned a value with all seven fields, averages with its six fields and
\* sleep_debt with its two, whatever the import, the login, the fetches, the
\* records and the metrics computation did.
C1_NeverEscapesFullyShaped ==
    pc = "done" => ~escaped /\ FullyShaped(result)

\* C1 witness: entries were collected and the metrics computation raised on
\* them, and the call still returned the unavailable analysis.
C1_Witness ==
    /\ pc = "done"
    /\ okDates # {}
    /\ \E k \in 1..Len(sleep_data_list) : ~IsNum(sleep_data_list[k].score)
    /\ result.trend = "unavailable"

\* C2: once login has succeeded the fetcher has been called exactly once for
\* each date of the iterations run so far, in the order today, today-1, ...;
\* an iteration whose fetch or extraction raised leaves the loop running with
\* the index advanced; the call ends only after all `days` dates were fetched;
\* and every date whose fetch and extraction succeeded has its entry in the
\* series.
C2_PerDayIsolation ==
    loggedIn =>
        /\ fetched = [k \in 1..i |-> DateOf(k - 1)]
        /\ pc \in {"loop", "done"}
        /\ pc = "done" => i = days
        /\ lastOutcome \in {"fetch_raised", "extraction_raised"} =>
               /\ i >= 1
               /\ fetched[i] \in failedDates
        /\ \A d \in okDates : d \in SeriesDates(sleep_data_list)

\* C2 witness: the fetch of the window's last date raised after an earlier
\* date had failed and another had yielded an entry, and the call returned
\* an analysis holding the entries collected.
C2_Witness ==
    /\ pc = "done"
    /\ lastOutcome = "fetch_raised"
    /\ days >= 3
    /\ \E f \in failedDates, o \in okDates : o < f
    /\ Len(result.weekly_data) = Cardinality(okDates)
    /\ okDates # {}

\* C3: while the series is collected and when the loop has ended, its length
\* is between 0 and days, it holds exactly one entry per date whose fetch and
\* extraction succeeded, and no entry at all for a date whose fetch failed or
\* returned no record.
C3_SeriesInvariant ==
    loggedIn =>
        /\ 0 <= Len(sleep_data_list)
        /\ Len(sleep_data_list) <= days
        /\ Len(sleep_data_list) = Cardinality(okDates)
        /\ \A d \in failedDates : d \notin SeriesDates(sleep_data_list)

\* C3 witness: a finished window in which some date had no record or failed
\* and some other date yielded an entry.
C3_Witness ==
    /\ pc = "done"
    /\ lastOutcome = "no_record"
    /\ Cardinality(failedDates) >= 2
    /\ Len(sleep_data_list) >= 2

IsUnavailable(r) ==
    /\ r.trend = "unavailable"
    /\ r.weekly_data = <<>>
    /\ r.consistency_score = RInt(0)
    /\ \A f \in AverageFields : r.averages[f] = RInt(0)
    /\ \A f \in DebtFields : r.sleep_debt[f] = RInt(0)
    /\ Len(r.recommendations) = 1

\* C4: when the loop ends with an empty series, and when
\* _calculate_sleep_metrics is handed an empty list, the result is the
\* unavailable analysis (trend "unavailable", no weekly data, consistency 0,
\* all averages and debts 0, one recommendation) and no metric was computed.
C4_EmptySeriesUnavailable ==
    /\ (pc = "done" /\ loggedIn /\ sleep_data_list = <<>>) =>
           IsUnavailable(result) /\ metricsLocals = NoLocals
    /\ (pc = "metrics_done" /\ metricsInput = <<>>) =>
           IsUnavailable(result) /\ metricsLocals = NoLocals

\* C4 witness: a window of several days none of which yielded an entry.
C4_Witness ==
    /\ pc = "done"
    /\ loggedIn
    /\ days >= 2
    /\ i = days
    /\ sleep_data_list = <<>>

(***************************************************************************)
(* Properties of _calculate_sleep_metrics, checked under MetricsSpec       *)
(* (C8 under Spec).  The reference values are computed over index sets,    *)
(* apart from the operators that model the code.                           *)
(***************************************************************************)
RECURSIVE SumFn(_)
SumFn(f) ==
    IF DOMAIN f = {} THEN RInt(0)
    ELSE LET x == CHOOSE y \in DOMAIN f : TRUE
         IN  RAdd(f[x], SumFn([y \in DOMAIN f \ {x} |-> f[y]]))

Computed == pc = "metrics_done" /\ metricsInput # <<>>

InputHours == [k \in 1..Len(metricsInput) |-> metricsInput[k].hours]

\* population variance of hours: E[h^2] - E[h]^2
PopulationVariance ==
    LET n == RInt(Len(metricsInput))
        meanSq == RDiv(SumFn([k \in DOMAIN InputHours |->
                                 RMul(InputHours[k], InputHours[k])]), n)
        mean == RDiv(SumFn(InputHours), n)
    IN  RSub(meanSq, RMul(mean, mean))

\* (100 - c)^2 for c = clamp(0, 100, 100 - 30 * sigma), sigma^2 = variance
ClampedGapSquared(variance) ==
    IF RLe(Rat(100, 9), variance) THEN RInt(10000) ELSE RMul(RInt(900), variance)

\* C5: for a non-empty series the consistency score computed equals
\* clamp(0, 100, 100 - 30 * sigma) with sigma the population standard
\* deviation (divisor n) of hours; it lies in [0, 100], as does the rounded
\* score returned; and it is 0 exactly when the variance is at least 100/9.
C5_ConsistencyFormula ==
    Computed =>
        LET c == metricsLocals.consistency_score      \* (100 - score)^2
        IN  /\ c = ClampedGapSquared(PopulationVariance)
            /\ RLe(RInt(0), c) /\ RLe(c, RInt(10000))
            /\ RLe(RInt(0), result.consistency_score)
            /\ RLe(result.consistency_score, RInt(100))
            /\ (c = RInt(10000)) <=> RLe(Rat(100, 9), PopulationVariance)

\* C5 witness: three or more nights of unequal length scoring strictly
\* between 0 and 100.
C5_Witness ==
    /\ Computed
    /\ Len(metricsInput) >= 3
    /\ RLt(RInt(0), metricsLocals.consistency_score)
    /\ RLt(metricsLocals.consistency_score, RInt(10000))
    /\ RLt(RInt(0), result.consistency_score)
    /\ RLt(result.consistency_score, RInt(100))

\* C6: a series of exactly one entry has consistency score 100, whatever
\* the hours of the entry.
C6_SingleEntryConsistency ==
    (Computed /\ Len(metricsInput) = 1) =>
        /\ metricsLocals.consistency_score = RInt(0)
        /\ result.consistency_score = RInt(100)

\* C6 witness: a single night of zero hours, scored 100.
C6_Witness ==
    /\ Computed
    /\ Len(metricsInput) = 1
    /\ metricsInput[1].hours = RInt(0)
    /\ result.consistency_score = RInt(100)

\* the entry of the series with exactly r - 1 entries of a later date
NthNewest(r) ==
    CHOOSE e \in {metricsInput[k] : k \in 1..Len(metricsInput)} :
        Cardinality({k \in 1..Len(metricsInput) : metricsInput[k].date > e.date}) = r - 1

\* mean hours of the three newest entries minus mean hours of the next three
RecentMinusOlder ==
    RSub(RDiv(RAdd(NthNewest(1).hours, RAdd(NthNewest(2).hours, NthNewest(3).hours)),
              RInt(3)),
         RDiv(RAdd(NthNewest(4).hours, RAdd(NthNewest(5).hours, NthNewest(6).hours)),
              RInt(3)))

C8_ShortSeriesInsufficient ==
    /\ (pc = "done" /\ (days < 6 \/ Cardinality(okDates) < 6)) =>
           result.trend \notin {"improving", "declining", "stable"}
    /\ (pc = "done" /\ Len(sleep_data_list) \in 1..5
            /\ \A k \in 1..Len(sleep_data_list) : IsNum(sleep_data_list[k].score)) =>
           result.trend = "insufficient_data"
    /\ (pc = "metrics_done" /\ Len(metricsInput) \in 1..5) =>
           result.trend = "insufficient_data"

\* C8 witness: a window of 6 days of which only 5 yielded an entry.
C8_Witness ==
    /\ pc = "done"
    /\ days = 6
    /\ Cardinality(okDates) = 5
    /\ Len(result.weekly_data) = 5
    /\ result.trend = "insufficient_data"

PositiveScoreIndices == {k \in 1..Len(metricsInput) : metricsInput[k].score.v > 0}

\* C9: the average score is the sum of the scores > 0 divided by the number
\* of entries with a score > 0, and 0 when there is none; entries with score
\* 0 enter neither the sum nor the count.
C9_ScoreAverageIgnoresZero ==
    Computed =>
        metricsLocals.avg_score =
            IF PositiveScoreIndices = {} THEN RInt(0)
            ELSE RDiv(SumFn([k \in PositiveScoreIndices |->
                                RInt(metricsInput[k].score.v)]),
                      RInt(Cardinality(PositiveScoreIndices)))

\* C9 witness: scores [0, 80] average to 80.
C9_Witness ==
    /\ Computed
    /\ Len(metricsInput) = 2
    /\ metricsInput[1].score = Num(0)
    /\ metricsInput[2].score = Num(80)
    /\ metricsLocals.avg_score = RInt(80)
    /\ result.averages.score = RInt(80)

ShortNightIndices == {k \in 1..Len(metricsInput) : RLt(InputHours[k], RInt(8))}

ExpectedTotalDebt ==
    SumFn([k \in ShortNightIndices |-> RSub(RInt(8), InputHours[k])])

SameHours(h) == \A k \in 1..Len(metricsInput) : InputHours[k] = h

Contains1(seq, x) == \E k \in 1..Len(seq) : seq[k] = x

\* C10: total debt is the sum over the entries of max(0, 8 - hours), the
\* average debt is that total over the number of entries, and the analysis
\* reports both to one decimal; n nights of 6 h give total 2n and average
\* 2.0 with the debt warning reading "2.0", and n nights of 7.5 h give
\* total n/2, average 0.5 and no debt warning.
C10_SleepDebt ==
    Computed =>
        LET n == Len(metricsInput)
        IN  /\ metricsLocals.total_debt = ExpectedTotalDebt
            /\ metricsLocals.avg_debt = RDiv(ExpectedTotalDebt, RInt(n))
            /\ result.sleep_debt.total_hours = Round1(ExpectedTotalDebt)
            /\ result.sleep_debt.avg_daily = Round1(RDiv(ExpectedTotalDebt, RInt(n)))
            /\ SameHours(RInt(6)) =>
                   /\ result.sleep_debt.total_hours = RInt(2 * n)
                   /\ result.sleep_debt.avg_daily = RInt(2)
                   /\ Contains1(result.recommendations,
                          "You have 2.0 hours of daily sleep debt. Consider a weekend catch-up sleep session.")
            /\ SameHours(Rat(15, 2)) =>
                   /\ result.sleep_debt.total_hours = Rat(n, 2)
                   /\ result.sleep_debt.avg_daily = Rat(1, 2)
                   /\ \A k \in 1..Len(result.recommendations) :
                          result.recommendations[k] # MsgDebt(Rat(1, 2))

\* C10 witness: seven nights of 6 h: total 14.0, average 2.0, warning "2.0".
C10_Witness ==
    /\ Computed
    /\ Len(metricsInput) = 7
    /\ SameHours(RInt(6))
    /\ result.sleep_debt.total_hours = RInt(14)
    /\ result.sleep_debt.avg_daily = RInt(2)
    /\ result.recommendations[Len(result.recommendations)] =
           "You have 2.0 hours of daily sleep debt. Consider a weekend catch-up sleep session."

(***************************************************************************)
(* Properties of the recommendations, the stage classification and the     *)
(* fallbacks.                                                               *)
(***************************************************************************)
\* C11 (as claimed): a computed analysis carries between 3 and 7
\* recommendations.
C11_ThreeToSeven ==
    Computed => Len(result.recommendations) \in 3..7

\* C11 (amended): a computed analysis carries between 2 and 7
\* recommendations: the duration message and the consistency message are
\* always there, the score, deep, REM and debt messages may each be absent.
C11_TwoToSeven ==
    Computed =>
        /\ Len(result.recommendations) \in 2..7
        /\ \E m \in {MsgShort, MsgLong, MsgDurationOk} :
               Contains1(result.recommendations, m)
        /\ \E m \in {MsgInconsistent, MsgConsistent} :
               Contains1(result.recommendations, m)

\* C11 witness: one night with every value in its silent band yields the
\* duration and the consistency message only.
C11_Witness ==
    /\ Computed
    /\ Len(metricsInput) = 1
    /\ result.recommendations = <<MsgDurationOk, MsgConsistent>>

StagesCalled == pc = "fn_done" /\ fnArgs.fn = "_calculate_sleep_stages"

SegmentsOf == fnArgs.sleep_levels.v

\* the bucket each label of StageLabels belongs to, "" for none
ExpectedBucket == <<"deep", "light", "deep", "", "rem", "awake", "rem">>

BucketOfSegment(seg) ==
    ExpectedBucket[CHOOSE k \in 1..Len(StageLabels) : StageLabels[k] = seg.v.activityLevel.v]

\* summed minutes of the segments of the argument that belong to a bucket of B
MinutesIn(B) ==
    SumFn([k \in {j \in 1..Len(SegmentsOf) : BucketOfSegment(SegmentsOf[j]) \in B} |->
              Rat(SegmentsOf[k].v.seconds.v, 60)])

\* C12: _calculate_sleep_stages adds seconds/60 of each segment to the one
\* bucket its label names, case-insensitively and in the priority deep,
\* light, rem, awake ("Deep_light" is deep only, "LIGHT_SLEEP" light only,
\* "awake_rem" rem only), and to no bucket for a label naming none
\* ("unmeasurable"); the four buckets add up to the minutes of the matching
\* segments.
C12_StageClassification ==
    StagesCalled =>
        /\ ~fnResult.raised
        /\ \A b \in {"deep", "light", "rem", "awake"} :
               fnResult.value[b] = MinutesIn({b})
        /\ RAdd(RAdd(fnResult.value.deep, fnResult.value.light),
                RAdd(fnResult.value.rem, fnResult.value.awake))
               = MinutesIn({"deep", "light", "rem", "awake"})

\* C12 witness: "Deep_light" for 90 minutes and "unmeasurable" for 10 give
\* 90 minutes of deep sleep and nothing else.
C12_Witness ==
    /\ StagesCalled
    /\ SegmentsOf = <<Level(StageLabels[3], 5400), Level(StageLabels[4], 600)>>
    /\ fnResult.value = [deep |-> RInt(90), light |-> RInt(0),
                          rem |-> RInt(0), awake |-> RInt(0)]

\* the analysis all non-happy paths share, but for its one recommendation
UnavailableWith(text) ==
    [weekly_data |-> <<>>,
     averages |-> [f \in AverageFields |-> RInt(0)],
     consistency_score |-> RInt(0),
     sleep_debt |-> [f \in DebtFields |-> RInt(0)],
     trend |-> "unavailable",
     optimal_bedtime |-> "N/A",
     recommendations |-> <<text>>]

NotConfiguredPath == pc = "done" /\ (~email \/ ~password)
LibraryMissingPath == pc = "done" /\ email /\ password /\ ~libInstalled
LoginFailedPath == pc = "done" /\ logins = 1 /\ ~loggedIn
EmptyWindowPath == pc = "done" /\ loggedIn /\ i = days /\ sleep_data_list = <<>>

PathTexts ==
    [not_configured |-> "Sleep analysis unavailable: Not configured",
     library |-> "Sleep analysis unavailable: Library not installed",
     login |-> "Sleep analysis unavailable: Connection failed",
     empty |-> "Sleep analysis unavailable: No data available"]

\* C13: a call that ended without credentials, without the client library,
\* with a failed login or with an empty window returned the same analysis
\* (trend "unavailable", no weekly data, every number 0, bedtime "N/A", one
\* recommendation) but for the text of that recommendation, which names the
\* path; the four texts are pairwise different.
C13_FallbacksDifferOnlyInText ==
    /\ NotConfiguredPath => result = UnavailableWith(PathTexts.not_configured)
    /\ LibraryMissingPath => result = UnavailableWith(PathTexts.library)
    /\ LoginFailedPath => result = UnavailableWith(PathTexts.login)
    /\ EmptyWindowPath => result = UnavailableWith(PathTexts.empty)
    /\ \A a, b \in DOMAIN PathTexts : a # b => PathTexts[a] # PathTexts[b]

\* C13 witness: the client library is missing and the call has returned.
C13_Witness ==
    /\ LibraryMissingPath
    /\ clients = 0
    /\ result.recommendations = <<"Sleep analysis unavailable: Library not installed">>

\* C14: within one call the client is constructed at most once and login is
\* called at most once, however many dates are fetched; a client exists only
\* when both credentials are present and the library imports; a date is
\* fetched only after the one login has returned; and a call that ended
\* without credentials, without the library or with a failed login returned
\* the unavailable analysis having fetched no date (and, without
\* credentials, having constructed no client and attempted no login).
C14_EntryChecksPrecedeFetching ==
    /\ clients <= 1 /\ logins <= 1
    /\ clients = 1 => email /\ password /\ libInstalled
    /\ logins = 1 => clients = 1
    /\ fetched # <<>> => loggedIn /\ logins = 1
    /\ NotConfiguredPath =>
           clients = 0 /\ logins = 0 /\ fetched = <<>> /\ IsUnavailable(result)
    /\ LibraryMissingPath =>
           clients = 0 /\ logins = 0 /\ fetched = <<>> /\ IsUnavailable(result)
    /\ LoginFailedPath => fetched = <<>> /\ IsUnavailable(result)

\* C14 witness: a window of several days whose login failed: the call is
\* over, one client and one login attempt, no date fetched.
C14_Witness ==
    /\ LoginFailedPath
    /\ days >= 2
    /\ clients = 1
    /\ fetched = <<>>
    /\ result.trend = "unavailable"

RecommendationsCalled ==
    pc = "fn_done" /\ fnArgs.fn = "_generate_sleep_recommendations"

\* the debt warning as it reads for each debt above 1
DebtWarning(debt) ==
    "You have "
        \o (CASE debt = Rat(26, 25) -> "1.0" [] debt = Rat(5, 4) -> "1.2"
              [] debt = RInt(2) -> "2.0" [] OTHER -> "?")
        \o " hours of daily sleep debt. Consider a weekend catch-up sleep session."

\* every message of the generator, in the order of its tiers
MessagesInOrder(debt) ==
    <<MsgShort, MsgLong, MsgDurationOk, MsgLowQuality, MsgQualityOk,
      MsgInconsistent, MsgConsistent, MsgLowDeep, MsgDeepOk, MsgLowRem,
      MsgRemOk, DebtWarning(debt)>>

Emitted(m) == Contains1(fnResult, m)

\* C15: the messages returned are those of the tiers triggered, each once,
\* in the order duration, score, consistency, deep, REM, debt: short < 7,
\* long > 9, optimal for 7..9; low quality < 70, excellent >= 80, nothing
\* between; irregular < 70, regular >= 70; low deep / low REM < 60, high
\* > 120, nothing for 60..120; the debt warning, with the debt rounded to
\* one decimal, iff debt > 1.
C15_RecommendationTiers ==
    RecommendationsCalled =>
        LET a == fnArgs.args
            all == MessagesInOrder(a.debt)
            rank(m) == CHOOSE k \in 1..Len(all) : all[k] = m
        IN  /\ \A k \in 1..Len(fnResult) : Contains1(all, fnResult[k])
            /\ \A k \in 1..(Len(fnResult) - 1) : rank(fnResult[k]) < rank(fnResult[k + 1])
            /\ Emitted(MsgShort) <=> RLt(a.avg_hours, RInt(7))
            /\ Emitted(MsgLong) <=> RLt(RInt(9), a.avg_hours)
            /\ Emitted(MsgDurationOk) <=>
                   RLe(RInt(7), a.avg_hours) /\ RLe(a.avg_hours, RInt(9))
            /\ Emitted(MsgLowQuality) <=> RLt(a.avg_score, RInt(70))
            /\ Emitted(MsgQualityOk) <=> RLe(RInt(80), a.avg_score)
            /\ Emitted(MsgInconsistent) <=> RLt(a.consistency, RInt(70))
            /\ Emitted(MsgConsistent) <=> RLe(RInt(70), a.consistency)
            /\ Emitted(MsgLowDeep) <=> RLt(a.deep_minutes, RInt(60))
            /\ Emitted(MsgDeepOk) <=> RLt(RInt(120), a.deep_minutes)
            /\ Emitted(MsgLowRem) <=> RLt(a.rem_minutes, RInt(60))
            /\ Emitted(MsgRemOk) <=> RLt(RInt(120), a.rem_minutes)
            /\ Emitted(DebtWarning(a.debt)) <=> RLt(RInt(1), a.debt)

\* C15 witness: every argument on a threshold (7 h, score 70, consistency
\* 70, 60 min deep, 120 min REM, debt 1.0) yields the optimal-duration and
\* the regular-schedule message only.
C15_Witness ==
    /\ RecommendationsCalled
    /\ fnArgs.args = [avg_hours |-> RInt(7), avg_score |-> RInt(70),
                       consistency |-> RInt(70), deep_minutes |-> RInt(60),
                       rem_minutes |-> RInt(120), debt |-> RInt(1)]
    /\ fnResult = <<MsgDurationOk, MsgConsistent>>

\* how often an entry occurs in a series
Occurrences(series, e) == Cardinality({k \in 1..Len(series) : series[k] = e})

\* mean hours of entries 1..3 minus mean hours of entries 4..6 of a series
FirstThreeMinusNextThree(series) ==
    RSub(RDiv(RAdd(series[1].hours, RAdd(series[2].hours, series[3].hours)), RInt(3)),
         RDiv(RAdd(series[4].hours, RAdd(series[5].hours, series[6].hours)), RInt(3)))

TrendOfDifference(diff) ==
    IF RLt(Rat(1, 2), diff) THEN "improving"
    ELSE IF RLt(diff, Rat(-1, 2)) THEN "declining"
    ELSE "stable"

\* C16: whatever the order of the argument, the weekly_data returned holds
\* the entries of the argument, each as often as it came, with dates never
\* increasing; and for 6 entries or more the trend compares the first three
\* entries of that sorted series with its next three.
C16_SortedBeforeComputing ==
    Computed =>
        LET wd == result.weekly_data
        IN  /\ Len(wd) = Len(metricsInput)
            /\ \A k \in 1..Len(metricsInput) :
                   Occurrences(wd, metricsInput[k]) = Occurrences(metricsInput, metricsInput[k])
            /\ \A k \in 1..(Len(wd) - 1) : wd[k].date >= wd[k + 1].date
            /\ Len(wd) >= 6 =>
                   result.trend = TrendOfDifference(FirstThreeMinusNextThree(wd))

\* C16 witness: six or more entries handed over interleaved (today, the
\* oldest day, yesterday, ...) whose trend is "improving" although the first
\* three entries of the argument do not exceed its next three by more than 0.5.
C16_Witness ==
    /\ Computed
    /\ Len(metricsInput) >= 6
    /\ metricsInput[1].date > metricsInput[3].date
    /\ metricsInput[3].date > metricsInput[2].date
    /\ result.trend = "improving"
    /\ TrendOfDifference(FirstThreeMinusNextThree(metricsInput)) # "improving"

\* the unrounded mean of a rational field over all entries of the argument
InputMean(f) ==
    RDiv(SumFn([k \in 1..Len(metricsInput) |-> metricsInput[k][f]]),
         RInt(Len(metricsInput)))

\* the unrounded mean of the positive scores, 0 when there is none
InputScoreMean ==
    IF PositiveScoreIndices = {} THEN RInt(0)
    ELSE RDiv(SumFn([k \in PositiveScoreIndices |-> RInt(metricsInput[k].score.v)]),
              RInt(Cardinality(PositiveScoreIndices)))

\* (100 - c)^2 of the unrounded consistency c of the argument
InputGapSquared ==
    IF Len(metricsInput) > 1 THEN ClampedGapSquared(PopulationVariance) ELSE RInt(0)

\* r is x rounded to a multiple of 1/q: a multiple of 1/q at most 1/(2q) away
IsRoundingOf(r, x, q) ==
    /\ q % r.d = 0
    /\ RLe(RSub(r, x), Rat(1, 2 * q))
    /\ RLe(RSub(x, r), Rat(1, 2 * q))

\* the integer c is the rounding of the score whose (100 - score)^2 is gap2
IsRoundedConsistency(c, gap2) ==
    /\ c.d = 1 /\ c.n \in 0..100
    /\ 4 * gap2.n <= (201 - 2 * c.n) * (201 - 2 * c.n) * gap2.d
    /\ c.n = 100 \/ 4 * gap2.n >= (199 - 2 * c.n) * (199 - 2 * c.n) * gap2.d

FixedMessages ==
    {MsgShort, MsgLong, MsgDurationOk, MsgLowQuality, MsgQualityOk, MsgInconsistent,
     MsgConsistent, MsgLowDeep, MsgDeepOk, MsgLowRem, MsgRemOk}

\* C17: every recommendation tier is decided on the unrounded means, the
\* unrounded consistency and the unrounded average debt of the argument,
\* while each returned number is the rounding of the unrounded value (one
\* decimal for hours and both debts, an integer for the score, the stage
\* minutes and the consistency score); an average debt of 1.04 gives the
\* debt warning reading "1.0".
C17_RoundingIsPresentationOnly ==
    Computed =>
        LET recs == result.recommendations
            n == RInt(Len(metricsInput))
            hours == InputMean("hours")
            deep == InputMean("deep_minutes")
            rem == InputMean("rem_minutes")
            debt == RDiv(ExpectedTotalDebt, n)
            a == result.averages
        IN  /\ Contains1(recs, MsgShort) <=> RLt(hours, RInt(7))
            /\ Contains1(recs, MsgLong) <=> RLt(RInt(9), hours)
            /\ Contains1(recs, MsgLowQuality) <=> RLt(InputScoreMean, RInt(70))
            /\ Contains1(recs, MsgQualityOk) <=> RLe(RInt(80), InputScoreMean)
            /\ Contains1(recs, MsgInconsistent) <=> RLt(RInt(900), InputGapSquared)
            /\ Contains1(recs, MsgConsistent) <=> RLe(InputGapSquared, RInt(900))
            /\ Contains1(recs, MsgLowDeep) <=> RLt(deep, RInt(60))
            /\ Contains1(recs, MsgDeepOk) <=> RLt(RInt(120), deep)
            /\ Contains1(recs, MsgLowRem) <=> RLt(rem, RInt(60))
            /\ Contains1(recs, MsgRemOk) <=> RLt(RInt(120), rem)
            /\ (\E k \in 1..Len(recs) : recs[k] \notin FixedMessages) <=> RLt(RInt(1), debt)
            /\ debt = Rat(26, 25) =>
                   Contains1(recs, "You have 1.0 hours of daily sleep debt. Consider a weekend catch-up sleep session.")
            /\ IsRoundingOf(a.hours, hours, 10)
            /\ IsRoundingOf(a.score, InputScoreMean, 1)
            /\ IsRoundingOf(a.deep_minutes, deep, 1)
            /\ IsRoundingOf(a.light_minutes, InputMean("light_minutes"), 1)
            /\ IsRoundingOf(a.rem_minutes, rem, 1)
            /\ IsRoundingOf(a.awake_minutes, InputMean("awake_minutes"), 1)
            /\ IsRoundedConsistency(result.consistency_score, InputGapSquared)
            /\ IsRoundingOf(result.sleep_debt.total_hours, ExpectedTotalDebt, 10)
            /\ IsRoundingOf(result.sleep_debt.avg_daily, debt, 10)

\* C17 witness: nights of 8.98 h and 6.96 h have consistency 69.7, which is
\* reported as 70 together with the irregular-schedule warning.
C17_Witness ==
    /\ Computed
    /\ Len(metricsInput) = 2
    /\ result.consistency_score = RInt(70)
    /\ Contains1(result.recommendations, MsgInconsistent)
    /\ ~Contains1(result.recommendations, MsgConsistent)

\* the entries the recorded fetch outcomes j..Len yield, in call order: a
\* fetch or an extraction that raises, and a payload without record, yield none
RECURSIVE EntriesObservedFrom(_)
EntriesObservedFrom(j) ==
    IF j > Len(observed.outcomes) THEN <<>>
    ELSE LET body == DayBody[observed.outcomes[j], j - 1]
         IN  (IF body.raised THEN <<>> ELSE body.entries) \o EntriesObservedFrom(j + 1)

\* what a call returns, from the object's fields, whether the library is
\* there, whether the login returned, and the fetch outcomes of this call
AnalysisOfObserved ==
    IF ~email \/ ~password THEN get_fallback_sleep_analysis("Not configured")
    ELSE IF ~libInstalled THEN get_fallback_sleep_analysis("Library not installed")
    ELSE IF ~loggedIn THEN get_fallback_sleep_analysis("Connection failed")
    ELSE IF EntriesObservedFrom(1) = <<>>
         THEN get_fallback_sleep_analysis("No data available")
    ELSE LET r == calculate_sleep_metrics(EntriesObservedFrom(1))
         IN  IF r.raised THEN get_fallback_sleep_analysis("Connection failed")
             ELSE r.value

WindowDates == [j \in 1..days |-> DateOf(j - 1)]

OwnLoginOwnFetchSameAnswer ==
    pc = "done" =>
        /\ ~escaped
        /\ result = AnalysisOfObserved
        /\ (email /\ password /\ libInstalled) => (clients = 1 /\ logins = 1)
        /\ ~(email /\ password /\ libInstalled) => (logins = 0 /\ fetched = <<>>)
        /\ loggedIn => (fetched = WindowDates /\ Len(observed.outcomes) = days)
        /\ ~loggedIn => fetched = <<>>

\* C18: on an object serving call after call, every call that gets past the
\* credentials check and the import constructs one client and logs in once,
\* every call whose login returns fetches each date of its window once, in
\* order; the value returned is the one determined by the fields, the login
\* and the fetch outcomes of that call alone; and no step changes a field of
\* the object.
C18_NoStateCrossesRequests ==
    /\ []OwnLoginOwnFetchSameAnswer
    /\ [][email' = email /\ password' = password]_vars

\* C18 witness: a call over two days or more has returned an analysis
\* computed from what its own fetches delivered.
C18_Witness ==
    /\ pc = "done"
    /\ observed.recording
    /\ loggedIn
    /\ days >= 2
    /\ Len(observed.outcomes) = days
    /\ result.trend = "insufficient_data"
    /\ Len(result.weekly_data) = 2

SafeGetCalled == pc = "fn_done" /\ fnArgs.fn = "safe_get"

DayBodyCalled == pc = "fn_done" /\ fnArgs.fn = "day_body"

\* the keys lead, one dictionary after the other, to a value of the argument
PathExists ==
    /\ Len(fnArgs.keys) <= fnArgs.depth
    /\ fnArgs.keys = SubSeq(SCORE_PATH, 1, Len(fnArgs.keys))

\* the value the path ends at is None
EndsAtNone == Len(fnArgs.keys) = fnArgs.depth /\ fnArgs.leaf = 1

\* C19: safe_get returns the default when a key of the path is missing, a
\* value on the path (the last included) is None or a value before the last
\* is no dictionary, and the value found, falsy or not, otherwise; the body
\* of a day gives score 0 unless sleepScores.overall.value is there and not
\* None, and hours 0 when sleepTimeSeconds is absent.
C19_NestedLookup ==
    /\ SafeGetCalled =>
           fnResult = IF PathExists /\ ~EndsAtNone
                      THEN NestedFrom(Len(fnArgs.keys) + 1, fnArgs.depth,
                                      Leaves[fnArgs.leaf])
                      ELSE fnArgs.default
    /\ DayBodyCalled =>
           /\ ~fnResult.raised
           /\ Len(fnResult.entries) = 1
           /\ fnResult.entries[1].score =
                  (IF fnArgs.depth = 3 /\ fnArgs.leaf # 1 THEN Leaves[fnArgs.leaf]
                   ELSE Num(0))
           /\ fnResult.entries[1].hours =
                  (IF fnArgs.hasSeconds THEN Rat(15, 2) ELSE RInt(0))

\* C19 witness: the whole score path leads to 0, the default is 'd', and 0
\* is returned.
C19_Witness ==
    /\ SafeGetCalled
    /\ fnArgs.keys = SCORE_PATH
    /\ fnArgs.dictionary =
           Dict([sleepScores |-> Dict([overall |-> Dict([value |-> Num(0)])])])
    /\ fnArgs.default = Str(<<"d">>)
    /\ fnResult = Num(0)

\* the sum of a rational field over the entries of the argument, by position
RECURSIVE InputTotalUpTo(_, _)
InputTotalUpTo(f, k) ==
    IF k = 0 THEN RInt(0) ELSE RAdd(InputTotalUpTo(f, k - 1), metricsInput[k][f])

StageFields == {"deep_minutes", "light_minutes", "rem_minutes", "awake_minutes"}

LocalOf(f) ==
    CASE f = "hours" -> metricsLocals.avg_hours
      [] f = "deep_minutes" -> metricsLocals.avg_deep
      [] f = "light_minutes" -> metricsLocals.avg_light
      [] f = "rem_minutes" -> metricsLocals.avg_rem
      [] f = "awake_minutes" -> metricsLocals.avg_awake

\* C20: the average hours and the average of each stage-minute field are
\* the sum over all entries divided by the number of entries, entries with
\* value 0 counted in the denominator.
C20_AveragesOverAllEntries ==
    Computed =>
        \A f \in StageFields \cup {"hours"} :
            RMul(LocalOf(f), RInt(Len(metricsInput))) = InputTotalUpTo(f, Len(metricsInput))

\* C20 witness: two entries, one with 90 deep minutes and one with none and a
\* score of 0: the deep average is 45 while the score average is that of the
\* one positive score.
C20_Witness ==
    /\ Computed
    /\ Len(metricsInput) = 2
    /\ \E k \in 1..2 : /\ metricsInput[k].deep_minutes = RInt(0)
                         /\ metricsInput[k].score = Num(0)
                         /\ metricsInput[3 - k].deep_minutes = RInt(90)
                         /\ metricsInput[3 - k].score.v > 0
                         /\ metricsLocals.avg_score = RInt(metricsInput[3 - k].score.v)
    /\ metricsLocals.avg_deep = RInt(45)
    /\ result.averages.deep_minutes = RInt(45)

\* _calculate_sleep_metrics has been called again, on the given form
CalledAgain(how) ==
    pc = "fn_done" /\ fnArgs.fn = "_calculate_sleep_metrics" /\ fnArgs.how = how

DistinctDates(series) ==
    \A a, b \in 1..Len(series) : a # b => series[a].date # series[b].date

\* C21: a series of pairwise distinct dates handed over in another order
\* gives the same analysis, field by field, weekly_data order included.
C21_OrderIndependence ==
    (CalledAgain("permuted") /\ DistinctDates(metricsInput)) =>
        /\ ~fnResult.raised
        /\ fnResult.value.weekly_data = result.weekly_data
        /\ fnResult.value.averages = result.averages
        /\ fnResult.value.consistency_score = result.consistency_score
        /\ fnResult.value.sleep_debt = result.sleep_debt
        /\ fnResult.value.trend = result.trend
        /\ fnResult.value.recommendations = result.recommendations
        /\ fnResult.value = result

\* C21 witness: six entries or more handed over again in an order whose
\* first three entries do not exceed its next three by more than 0.5 h,
\* while the trend of both calls is "improving".
C21_Witness ==
    /\ CalledAgain("permuted")
    /\ DistinctDates(metricsInput)
    /\ Len(metricsInput) >= 6
    /\ fnArgs.sleep_data # metricsInput
    /\ result.trend = "improving"
    /\ fnResult.value.trend = "improving"
    /\ TrendOfDifference(FirstThreeMinusNextThree(fnArgs.sleep_data)) # "improving"

ShapedDayBodyCalled == pc = "fn_done" /\ fnArgs.fn = "shaped_day_body"

\* the sleepLevels value of the record handed over (None when absent)
LevelsHandedOver == DictGet(fnArgs.sleep_data.v["dailySleepDTO"], "sleepLevels")

\* a key of a segment is there, is not None, and has the wrong type
LabelNoString(x) ==
    IsDict(x) /\ ~IsNone(DictGet(x, "activityLevel")) /\ ~IsStr(DictGet(x, "activityLevel"))

SecondsNoNumber(x) ==
    IsDict(x) /\ ~IsNone(DictGet(x, "seconds")) /\ ~IsNum(DictGet(x, "seconds"))

\* sleepLevels is a number other than 0, or one of its segments has a label
\* that is no string or seconds that are no number
WrongTypeInLevels ==
    \/ IsNum(LevelsHandedOver) /\ LevelsHandedOver.v # 0
    \/ /\ LevelsHandedOver.t = "list"
       /\ \E k \in 1..Len(LevelsHandedOver.v) :
              LabelNoString(LevelsHandedOver.v[k]) \/ SecondsNoNumber(LevelsHandedOver.v[k])

\* C22 as stated: extraction raises for no record shape and builds an entry
\* for the date from every one.
C22_NeverRaises ==
    ShapedDayBodyCalled => (~fnResult.raised /\ Len(fnResult.entries) = 1)

\* C22 amended: missing keys and None values, and a sleepLevels value that
\* is a list of non-dictionaries, a dictionary or a string, resolve to the
\* defaults and an entry for the date is built (no stage minutes, score 0,
\* hours 0 without sleepTimeSeconds); a segment whose label is no string or
\* whose seconds are no number, and a sleepLevels value that is a non-zero
\* number, make extraction raise an exception the per-day handler catches,
\* and no entry is built.
C22_DefaultsOrDayDropped ==
    ShapedDayBodyCalled =>
        IF WrongTypeInLevels
        THEN fnResult.raised /\ InnerCatches(fnResult.exc)
        ELSE /\ ~fnResult.raised
             /\ Len(fnResult.entries) = 1
             /\ fnResult.entries[1].date = Today
             /\ fnResult.entries[1].score = Num(0)
             /\ fnResult.entries[1].hours \in {RInt(0), Rat(15, 2)}
             /\ fnResult.entries[1].hours = RInt(0) <=>
                    IsNone(DictGet(fnArgs.sleep_data.v["dailySleepDTO"], "sleepTimeSeconds"))
             /\ \A f \in {"deep_minutes", "light_minutes", "rem_minutes", "awake_minutes"} :
                    fnResult.entries[1][f] = RInt(0)

\* C22 witness: a record whose first segment is well-formed and whose second
\* has the number 1 as label: extraction raises AttributeError.
C22_Witness ==
    /\ ShapedDayBodyCalled
    /\ LevelsHandedOver.t = "list"
    /\ Len(LevelsHandedOver.v) = 2
    /\ ~LabelNoString(LevelsHandedOver.v[1])
    /\ LabelNoString(LevelsHandedOver.v[2])
    /\ fnResult.raised
    /\ fnResult.exc = "AttributeError"

\* C23: while a call collects, the series is exactly the entries built so
\* far from its fetches, in the order built; and the weekly_data of a
\* computed analysis holds those entries, each as often as it was built and
\* with every field as built, and nothing else.
C23_EntriesUnchanged ==
    LET built == EntriesObservedFrom(1)
    IN  /\ pc = "loop" => sleep_data_list = built
        /\ (pc = "done" /\ loggedIn /\ result.trend # "unavailable") =>
               /\ Len(result.weekly_data) = Len(built)
               /\ \A k \in 1..Len(built) :
                      Occurrences(result.weekly_data, built[k]) = Occurrences(built, built[k])

\* C23 witness: an analysis over two entries or more, one of them a night
\* of 8.98 h, which weekly_data shows as 8.98 h.
C23_Witness ==
    /\ pc = "done"
    /\ observed.recording
    /\ result.trend = "insufficient_data"
    /\ Len(result.weekly_data) >= 2
    /\ \E k \in 1..Len(result.weekly_data) : result.weekly_data[k].hours = Rat(449, 50)
    /\ result.averages.hours # Rat(449, 50)

\* the recommendations hold a sleep-debt warning
HasDebtWarning ==
    \E k \in 1..Len(result.recommendations) : result.recommendations[k] \notin FixedMessages

\* C24: the average debt is at least 8 minus the average hours, so whenever
\* the short-duration warning is emitted the average debt exceeds 1 and the
\* sleep-debt warning is emitted with it.
C24_ShortImpliesDebtWarning ==
    Computed =>
        /\ RLe(RSub(RInt(8), metricsLocals.avg_hours), metricsLocals.avg_debt)
        /\ Contains1(result.recommendations, MsgShort) =>
               (RLt(RInt(1), metricsLocals.avg_debt) /\ HasDebtWarning)

\* C24 witness: one night of 6.96 h, reported as 7.0 h, with the
\* short-duration warning and the sleep-debt warning.
C24_Witness ==
    /\ Computed
    /\ Len(metricsInput) = 1
    /\ metricsLocals.avg_hours = Rat(174, 25)
    /\ Contains1(result.recommendations, MsgShort)
    /\ HasDebtWarning

\* the converse of C24 fails: an optimal duration message with a debt warning
C24_ConverseExample ==
    /\ Computed
    /\ Contains1(result.recommendations, MsgDurationOk)
    /\ HasDebtWarning

StrictlyDescending(series) ==
    \A k \in 1..(Len(series) - 1) : series[k].date > series[k + 1].date

\* C26: at every step of the collection loop, and when it has ended, the
\* dates of the series are strictly descending (hence pairwise distinct) and
\* lie between today - (days - 1) and today; sorting such a series by date
\* descending leaves it as it is.
C26_CollectedSeriesIsSorted ==
    (loggedIn /\ pc \in {"loop", "done"}) =>
        /\ StrictlyDescending(sleep_data_list)
        /\ \A k \in 1..Len(sleep_data_list) :
               /\ sleep_data_list[k].date <= Today
               /\ sleep_data_list[k].date >= Today - (days - 1)
        /\ SortByDateDesc(sleep_data_list) = sleep_data_list

\* C26 witness: the loop is still running, three entries are collected, and
\* a date between two of them is missing.
C26_Witness ==
    /\ pc = "loop"
    /\ i < days
    /\ Len(sleep_data_list) = 3
    /\ sleep_data_list[1].date - sleep_data_list[3].date > 2

\* C27: when no entry of a non-empty series has a positive score, the
\* average score is 0, it is reported as 0, and the low-sleep-quality
\* warning is among the recommendations.
C27_NoScoreIsLowQuality ==
    (Computed /\ \A k \in 1..Len(metricsInput) : metricsInput[k].score.v <= 0) =>
        /\ metricsLocals.avg_score = RInt(0)
        /\ result.averages.score = RInt(0)
        /\ Contains1(result.recommendations, MsgLowQuality)
        /\ ~Contains1(result.recommendations, MsgQualityOk)

\* C27 witness: two nights of 7.5 h without any score: the duration is
\* praised and the quality warned about.
C27_Witness ==
    /\ Computed
    /\ Len(metricsInput) = 2
    /\ \A k \in 1..2 : metricsInput[k].score = Num(0) /\ metricsInput[k].hours = Rat(15, 2)
    /\ Contains1(result.recommendations, MsgDurationOk)
    /\ Contains1(result.recommendations, MsgLowQuality)

\* the series handed over again differs from the first one in the score or
\* the stage minutes of an entry, or in entries older than the sixth most
\* recent one of the first
LeavesSixNewestHours ==
    \/ CalledAgain("rescored")
    \/ CalledAgain("older_changed")
    \/ CalledAgain("older_removed")
    \/ CalledAgain("entry_added") /\ Len(metricsInput) >= 6

\* C28: changing the score or the stage minutes of any entry, and changing,
\* removing or adding entries older than the sixth most recent one, leaves
\* the trend as it was; the six entries compared are the six most recent
\* ones whatever calendar days lie between them.
C28_TrendFrame ==
    LeavesSixNewestHours =>
        /\ ~fnResult.raised
        /\ fnResult.value.trend = result.trend
        /\ Len(metricsInput) >= 6 =>
               result.trend = TrendOfDifference(FirstThreeMinusNextThree(result.weekly_data))

\* C28 witness: seven entries on days that are not consecutive, the oldest
\* of which gets 12 h instead of 6 h: the trend stays "declining".
C28_Witness ==
    /\ CalledAgain("older_changed")
    /\ Len(metricsInput) = 7
    /\ metricsInput[3].date - metricsInput[4].date > 1
    /\ metricsInput[7].hours = RInt(6)
    /\ fnArgs.sleep_data[7].hours = RInt(12)
    /\ result.trend = "declining"
    /\ fnResult.value.trend = "declining"

\* every entry of the series has 8 h or more
NoShortNight(series) ==
    \A k \in 1..Len(series) : RLe(RInt(RecommendedHours), series[k].hours)

\* what lines 300-301 compute for a series, and what lines 339-342 return
DebtLaws(series, locals, value) ==
    /\ RLe(RInt(0), locals.total_debt)
    /\ RLe(RMax(RInt(0), RSub(RInt(RecommendedHours), locals.avg_hours)), locals.avg_debt)
    /\ (locals.total_debt = RInt(0)) <=> NoShortNight(series)
    /\ value.sleep_debt.total_hours = Round1(locals.total_debt)
    /\ value.sleep_debt.avg_daily = Round1(locals.avg_debt)
    /\ RLe(RInt(0), value.sleep_debt.total_hours)
    /\ RLe(RMax(RInt(0), RSub(RInt(RecommendedHours), value.averages.hours)), value.sleep_debt.avg_daily)
    /\ NoShortNight(series) => value.sleep_debt.total_hours = RInt(0)
    /\ (value.sleep_debt.total_hours = RInt(0)) => RLe(locals.total_debt, Rat(1, 20))

\* the second call has one more entry than the first, of 8 h or more
LongNightAdded ==
    /\ CalledAgain("entry_added")
    /\ RLe(RInt(RecommendedHours), fnArgs.sleep_data[1].hours)

NoRecordOutcome(k) == FetchOutcomes[k].raised \/ ~HasRecord(FetchOutcomes[k])

EveryFetchWithoutRecord ==
    \A n \in 1..Len(observed.outcomes) : NoRecordOutcome(observed.outcomes[n])

ReasonIs(text) == result.recommendations = <<text>>

\* C30: the reason of an unavailable analysis follows the order of the
\* checks. Without credentials it is "Not configured", whether or not the
\* client library can be imported; with credentials and without the
\* library it is "Library not installed"; with both and a failed login it
\* is "Connection failed"; after a successful login in which every fetch
\* raised or returned no record it is "No data available", and "Connection
\* failed" after a successful login means that an entry was collected.
C30_ReasonPrecedence ==
    pc = "done" =>
        /\ (~email \/ ~password) =>
               ReasonIs(PathTexts.not_configured) /\ clients = 0 /\ logins = 0
        /\ (email /\ password /\ ~libInstalled) =>
               ReasonIs(PathTexts.library) /\ logins = 0
        /\ (email /\ password /\ libInstalled /\ ~loggedIn) =>
               ReasonIs(PathTexts.login) /\ logins = 1 /\ observed.outcomes = <<>>
        /\ (loggedIn /\ EveryFetchWithoutRecord) =>
               /\ Len(observed.outcomes) = days
               /\ ReasonIs(PathTexts.empty)
               /\ ~ReasonIs(PathTexts.login)
        /\ (loggedIn /\ ReasonIs(PathTexts.login)) => sleep_data_list # <<>>

\* C30 witness: login succeeded, the first fetch of a three-day window
\* raised, the second returned None, the third a record without
\* dailySleepDTO, and the call returned "No data available".
C30_Witness ==
    /\ pc = "done"
    /\ loggedIn
    /\ days = 3
    /\ Len(observed.outcomes) = 3
    /\ FetchOutcomes[observed.outcomes[1]].raised
    /\ FetchOutcomes[observed.outcomes[2]] = Return(None)
    /\ FetchOutcomes[observed.outcomes[3]] = Return(RecordNoDTO)
    /\ result = UnavailableWith(PathTexts.empty)

====
